---- MODULE Spec2Model ----
(***************************************************************************)
(* Model of the coreader reading core: the chapter-based ReadingEngine,    *)
(* the content-based ReadingEngine with its pagination strategies, the     *)
(* useReadingEngine store and the reflow effect of the reading view.       *)
(*                                                                         *)
(* A text is a sequence of one-character strings.  "U+4E2D" and "U+3002"   *)
(* stand for one CJK ideograph and the ideographic full stop, "U+0130" for  *)
(* the capital I with a dot above and "U+0307" for the combining dot.      *)
(***************************************************************************)
EXTENDS Integers, Sequences, FiniteSets, TLC

VARIABLES
  hasWindow,         \* typeof window !== 'undefined'
  hasContext,        \* canvas.getContext('2d') yields a context
  \* the chapter-based ReadingEngine
  enginePc,          \* "ready", or "hung" inside a call that never returns
  book,              \* ReadingEngine.book
  pages,             \* ReadingEngine.pages
  chapterPages,      \* ReadingEngine.chapterPages
  pageToChapter,     \* ReadingEngine.pageToChapter
  lastCall,          \* its latest call: operation, argument, result
  \* the content-based ReadingEngine
  contentPc,         \* "ready" once the engine is constructed
  contentBook,       \* ReadingEngine.book
  contentPages,      \* ReadingEngine.pages
  contentFontSize,   \* ReadingEngine.fontSize
  contentLineHeight, \* ReadingEngine.lineHeight, in tenths
  contentCall,       \* its latest call: operation, argument, result
  \* one pagination function applied to one text
  inputText,         \* the chapter text handed to the function
  inputOptions,      \* the typography handed to it
  strategy,          \* the function that ran: "none" before the call
  outcome,           \* its pages, and whether the call failed to return
  \* the reading view (ReadingInterface) over a content-based engine
  viewPc,            \* "open" while the view is mounted
  currentPage,       \* useState currentPage
  pageInfo,          \* useState pageInfo
  settings,          \* the typography settings of useBookStore
  innerHeight,       \* window.innerHeight
  repaginateTimeout, \* the ref to the reflow timer, and the timers pending
  lastReflow,        \* the reader's page before and after the latest reflow
  \* the useReadingEngine store
  storeBook,         \* currentBook
  storePage,         \* currentPage
  storeChapter,      \* currentChapter
  storePages,        \* pages
  storeFontSize,     \* fontSize
  storeLineHeight,   \* lineHeight, in tenths
  storeTheme,        \* theme
  storeTimeSpent,    \* timeSpent
  storeLastRead,     \* lastReadTimestamp
  now,               \* Date.now()
  storeCall,         \* the latest updateReadingPreference: pages before, after
  \* one import: a file handed to a parser of BookParser
  importPc,          \* where the import stands, from "picked" to "added"
  file,              \* the file: its name and what its bytes hold
  parsed,            \* the ParsedBook the parser resolved with
  books,             \* the books of useBookStore, the library
  \* the drag-and-drop import dialog
  uploads,           \* useState uploads
  batches,           \* the calls of processFiles: their files, and where each stands
  isProcessing,      \* useState isProcessing
  \* the rest of useBookStore
  highlights,        \* highlights
  notes,             \* notes
  libraryBook,       \* currentBook
  issued             \* the ids the library store has made, each by its kind

envVars == <<hasWindow, hasContext>>
engineVars == <<enginePc, book, pages, chapterPages, pageToChapter, lastCall>>
contentVars ==
  <<contentPc, contentBook, contentPages, contentFontSize, contentLineHeight,
    contentCall>>
paginateVars == <<inputText, inputOptions, strategy, outcome>>
viewVars ==
  <<viewPc, currentPage, pageInfo, settings, innerHeight, repaginateTimeout,
    lastReflow>>
storeVars ==
  <<storeBook, storePage, storeChapter, storePages, storeFontSize,
    storeLineHeight, storeTheme, storeTimeSpent, storeLastRead, now, storeCall>>
importVars == <<importPc, file, parsed, books>>
dialogVars == <<uploads, batches, isProcessing>>
libraryVars == <<highlights, notes, libraryBook, issued>>
vars ==
  <<envVars, engineVars, contentVars, paginateVars, viewVars, storeVars,
    importVars, dialogVars, libraryVars>>

\* ------------------------------------------------------------------------
\* Characters and JavaScript string primitives
\* ------------------------------------------------------------------------
SP == " "
NL == "\n"
CJK == "U+4E2D"
CJKStop == "U+3002"
DotI == "U+0130"
CombiningDot == "U+0307"
CR == "\r"
TAB == "\t"
WideBang == "U+FF01"
WideQuery == "U+FF1F"

UpperLetters ==
  <<"A", "B", "C", "D", "E", "F", "G", "H", "I", "J", "K", "L", "M",
    "N", "O", "P", "Q", "R", "S", "T", "U", "V", "W", "X", "Y", "Z">>
LowerLetters ==
  <<"a", "b", "c", "d", "e", "f", "g", "h", "i", "j", "k", "l", "m",
    "n", "o", "p", "q", "r", "s", "t", "u", "v", "w", "x", "y", "z">>
\* [A-Z], [a-z] and \d
IsUpper(c) == \E i \in 1..Len(UpperLetters) : UpperLetters[i] = c
IsLower(c) == \E i \in 1..Len(LowerLetters) : LowerLetters[i] = c
IsDigit(c) == c \in {"0", "1", "2", "3", "4", "5", "6", "7", "8", "9"}

\* \s of the regular expressions and of String.prototype.trim
IsSpace(c) == c \in {SP, NL, CR, TAB}
\* [一-鿿]
IsChinese(c) == c = CJK
\* [a-zA-Z]
IsLetter(c) == IsUpper(c) \/ IsLower(c)
\* [。！？.!?]
IsSentenceEnd(c) == c \in {CJKStop, WideBang, WideQuery, ".", "!", "?"}

Min(a, b) == IF a < b THEN a ELSE b
Max(a, b) == IF a > b THEN a ELSE b

\* s.substring(from) with a 0-based offset
Drop(s, n) == SubSeq(s, n + 1, Len(s))
\* s.substring(0, n)
Take(s, n) == SubSeq(s, 1, n)

\* String.prototype.toLowerCase
\* String.prototype.toLowerCase; the capital I with a dot above lowers to two
\* code units, i and the combining dot
LowerChar(c) ==
  IF c = DotI THEN <<"i", CombiningDot>>
  ELSE IF IsUpper(c)
  THEN <<LowerLetters[CHOOSE i \in 1..Len(UpperLetters) : UpperLetters[i] = c]>>
  ELSE <<c>>
RECURSIVE toLowerCase(_)
toLowerCase(s) ==
  IF s = <<>> THEN <<>> ELSE LowerChar(Head(s)) \o toLowerCase(Tail(s))

\* String.prototype.substring: both ends are clamped to the string
substring(s, start, end) ==
  LET lo == Max(0, Min(start, Len(s)))
      hi == Max(0, Min(end, Len(s)))
  IN  SubSeq(s, Min(lo, hi) + 1, Max(lo, hi))

\* String.prototype.trim
trim(s) ==
  LET keep == {i \in 1..Len(s) : ~IsSpace(s[i])}
  IN  IF keep = {} THEN <<>>
      ELSE LET lo == CHOOSE i \in keep : \A j \in keep : i <= j
               hi == CHOOSE i \in keep : \A j \in keep : i >= j
           IN  SubSeq(s, lo, hi)

\* the characters of s that are not white space, in order
RECURSIVE NonSpace(_)
NonSpace(s) ==
  IF s = <<>> THEN <<>>
  ELSE (IF IsSpace(s[1]) THEN <<>> ELSE <<s[1]>>) \o NonSpace(Tail(s))

\* Array.prototype.join
RECURSIVE join(_, _)
join(parts, sep) ==
  IF Len(parts) = 0 THEN <<>>
  ELSE IF Len(parts) = 1 THEN parts[1]
  ELSE parts[1] \o sep \o join(Tail(parts), sep)

\* concatenation of a list of texts
Concat(parts) == join(parts, <<>>)

\* s.split(c) for a one-character separator c
RECURSIVE splitChar(_, _)
splitChar(s, c) ==
  LET hits == {i \in 1..Len(s) : s[i] = c}
  IN  IF hits = {} THEN <<s>>
      ELSE LET i == CHOOSE k \in hits : \A j \in hits : k <= j
           IN  <<Take(s, i - 1)>> \o splitChar(Drop(s, i), c)

\* s.split('\n\n')
RECURSIVE splitBlankLine(_)
splitBlankLine(s) ==
  LET hits == {i \in 1..(Len(s) - 1) : s[i] = NL /\ s[i + 1] = NL}
  IN  IF hits = {} THEN <<s>>
      ELSE LET i == CHOOSE k \in hits : \A j \in hits : k <= j
           IN  <<Take(s, i - 1)>> \o splitBlankLine(Drop(s, i + 1))

\* last index of the run of separator characters that starts at index i
RECURSIVE RunEnd(_, _, _)
RunEnd(s, i, seps) ==
  IF i < Len(s) /\ s[i + 1] \in seps THEN RunEnd(s, i + 1, seps) ELSE i

\* s.split(/X+/) for a character class X
RECURSIVE splitRuns(_, _)
splitRuns(s, seps) ==
  LET hits == {i \in 1..Len(s) : s[i] \in seps}
  IN  IF hits = {} THEN <<s>>
      ELSE LET i == CHOOSE k \in hits : \A j \in hits : k <= j
               e == RunEnd(s, i, seps)
           IN  <<Take(s, i - 1)>> \o splitRuns(Drop(s, e), seps)

\* s.split(/\n+/)
splitLines(s) == splitRuns(s, {NL})
\* s.split(/\s+/)
splitWords(s) == splitRuns(s, {SP, NL, CR, TAB})

\* s.split(/(?<=[。！？.!?])/): cut after every sentence terminator
RECURSIVE splitSentences(_)
splitSentences(s) ==
  LET hits == {i \in 1..(Len(s) - 1) : IsSentenceEnd(s[i])}
  IN  IF hits = {} THEN <<s>>
      ELSE LET i == CHOOSE k \in hits : \A j \in hits : k <= j
           IN  <<Take(s, i)>> \o splitSentences(Drop(s, i))

\* s.indexOf(t, from): 0-based offset of the first occurrence at or after
\* from, -1 when there is none
MatchesAt(s, t, off) ==
  /\ off >= 0
  /\ off + Len(t) <= Len(s)
  /\ \A k \in 1..Len(t) : s[off + k] = t[k]
indexOf(s, t, from) ==
  LET hits == {o \in Max(0, Min(from, Len(s)))..Len(s) : MatchesAt(s, t, o)}
  IN  IF hits = {} THEN -1
      ELSE CHOOSE o \in hits : \A p \in hits : o <= p

\* (text.match(/[一-鿿]/g) || []).length
chineseCount(s) == Cardinality({i \in 1..Len(s) : IsChinese(s[i])})
\* (text.match(/[a-zA-Z]+/g) || []).length
englishWordCount(s) ==
  Cardinality({i \in 1..Len(s) :
                 IsLetter(s[i]) /\ (i = 1 \/ ~IsLetter(s[i - 1]))})
countWords(s) == chineseCount(s) + englishWordCount(s)

\* Math.ceil(a / b) and Math.round(a / b) for b > 0
CeilDiv(a, b) == -((-a) \div b)
RoundDiv(a, b) == (2 * a + b) \div (2 * b)

\* ------------------------------------------------------------------------
\* Typography and the glyph-metrics capability
\* ------------------------------------------------------------------------
\* A typography record holds fontSize, pageWidth, pageHeight and padding in
\* pixels and lineHeight in tenths (15 is the multiplier 1.5).

\* options.pageWidth - (options.padding * 2)
maxWidthOf(options) == options.pageWidth - 2 * options.padding
\* Math.floor(maxHeight / (options.fontSize * options.lineHeight))
maxLinesOf(options) ==
  (10 * (options.pageHeight - 2 * options.padding))
     \div (options.fontSize * options.lineHeight)

\* ctx.measureText(line).width > maxWidth, for a synthetic metrics provider
\* whose glyphs all advance 0.6 * fontSize pixels
TooWide(line, options) ==
  6 * options.fontSize * Len(line) > 10 * maxWidthOf(options)

\* ------------------------------------------------------------------------
\* Fixed texts of the source
\* ------------------------------------------------------------------------
NoContentAvailable ==
  <<"N","o"," ","c","o","n","t","e","n","t"," ","a","v","a","i","l","a","b","l","e">>
FullText == <<"F","u","l","l"," ","T","e","x","t">>
ChapterContentFor ==
  <<"C","h","a","p","t","e","r"," ","c","o","n","t","e","n","t"," ","f","o","r"," ">>
ContentFor == <<"C","o","n","t","e","n","t"," ","f","o","r"," ">>
ChapterWord == <<"C","h","a","p","t","e","r">>
NoContent == <<"N","o"," ","c","o","n","t","e","n","t">>

WelcomeTo == <<"W","e","l","c","o","m","e"," ","t","o"," ">>
ThisBook == <<"t","h","i","s"," ","b","o","o","k">>
WelcomeTail ==
  <<"!","\n","\n","T","h","i","s"," ","a","p","p","e","a","r","s"," ","t",
   "o"," ","b","e"," ","a","n"," ","e","m","p","t","y"," ","b","o","o","k",
   " ","o","r"," ","t","h","e"," ","c","o","n","t","e","n","t"," ","c","o",
   "u","l","d"," ","n","o","t"," ","b","e"," ","l","o","a","d","e","d"," ",
   "p","r","o","p","e","r","l","y","."," ","P","l","e","a","s","e"," ","t",
   "r","y"," ","i","m","p","o","r","t","i","n","g"," ","t","h","e"," ","b",
   "o","o","k"," ","a","g","a","i","n",".">>

\* a || b on strings: the empty string is falsy
OrElse(a, b) == IF a = <<>> THEN b ELSE a

\* ------------------------------------------------------------------------
\* Map primitives
\* ------------------------------------------------------------------------
EmptyMap == [k \in {} |-> <<>>]
\* Map.prototype.set
MapSet(m, k, v) == [x \in (DOMAIN m) \cup {k} |-> IF x = k THEN v ELSE m[x]]
\* Map.prototype.get, with "undefined" for a missing key
Undefined == "undefined"
MapGet(m, k) == IF k \in DOMAIN m THEN m[k] ELSE Undefined

\* ------------------------------------------------------------------------
\* ReadingEngine (chapter-based): construction
\* ------------------------------------------------------------------------
WordsPerPageEstimate == 300
MinWordsPerPage == 50

\* chapters.every(c => !c.content || !c.content.trim())
AllBlank(chapters) == \A i \in 1..Len(chapters) : trim(chapters[i].content) = <<>>

\* the chapter list initializePages works on, and stores back into the book
InitialChapters(b) ==
  IF Len(b.chapters) = 0 \/ AllBlank(b.chapters)
  THEN <<[id |-> "chapter-1",
          title |-> OrElse(b.title, FullText),
          content |-> OrElse(b.content, NoContentAvailable)]>>
  ELSE b.chapters

\* the text initializePages paginates for one chapter
ChapterText(b, chapter) ==
  LET c1 == IF trim(chapter.content) = <<>>
            THEN OrElse(b.content, ChapterContentFor \o chapter.title)
            ELSE chapter.content
  IN  IF trim(c1) = <<>>
      THEN ContentFor \o OrElse(chapter.title, ChapterWord)
      ELSE c1

\* the for loop over words.slice(i, i + wordsPerPage), dropping blank pages
RECURSIVE WordSlices(_, _, _)
WordSlices(words, wordsPerPage, keepBlank) ==
  IF Len(words) = 0 THEN <<>>
  ELSE LET pageContent == join(Take(words, Min(wordsPerPage, Len(words))), <<SP>>)
           rest == WordSlices(Drop(words, Min(wordsPerPage, Len(words))),
                              wordsPerPage, keepBlank)
       IN  IF keepBlank \/ trim(pageContent) # <<>>
           THEN <<pageContent>> \o rest
           ELSE rest

\* the pages initializePages builds for one chapter
InitialChapterPages(b, chapter) ==
  LET chapterContent == ChapterText(b, chapter)
      wordCount == countWords(chapterContent)
      chapterPageCount == Max(1, CeilDiv(wordCount, WordsPerPageEstimate))
      words == splitChar(chapterContent, SP)
      wordsPerPage == Max(MinWordsPerPage, CeilDiv(Len(words), chapterPageCount))
      sliced == WordSlices(words, wordsPerPage, FALSE)
  IN  IF Len(sliced) = 0
      THEN <<OrElse(chapterContent, ContentFor \o chapter.title)>>
      ELSE sliced

\* this.pages.push(page); this.pageToChapter.set(globalPageIndex++, id)
\* PushPages numbering the global pages from 1 instead of 0
RECURSIVE PushPagesOneBased(_, _, _)
PushPagesOneBased(acc, newPages, id) ==
  IF Len(newPages) = 0 THEN acc
  ELSE PushPagesOneBased(
         [acc EXCEPT !.pages = Append(@, newPages[1]),
                     !.pageToChapter = MapSet(@, Len(acc.pages) + 1, id)],
         Tail(newPages), id)

RECURSIVE PushPages(_, _, _)
PushPages(acc, newPages, id) ==
  IF Len(newPages) = 0 THEN acc
  ELSE PushPages([acc EXCEPT !.pages = Append(@, newPages[1]),
                             !.pageToChapter = MapSet(@, Len(acc.pages), id)],
                 Tail(newPages), id)

EmptyLayout == [pages |-> <<>>, chapterPages |-> EmptyMap, pageToChapter |-> EmptyMap]

RECURSIVE InitLoop(_, _, _, _)
InitLoop(b, chapters, k, acc) ==
  IF k > Len(chapters) THEN acc
  ELSE LET chapterPageList == InitialChapterPages(b, chapters[k])
           pushed == PushPages(acc, chapterPageList, chapters[k].id)
       IN  InitLoop(b, chapters, k + 1,
                    [pushed EXCEPT !.chapterPages =
                        MapSet(@, chapters[k].id, chapterPageList)])

\* the page of a book that ended up with no page at all
FallbackContent(b) ==
  OrElse(b.content, WelcomeTo \o OrElse(b.title, ThisBook) \o WelcomeTail)

\* ReadingEngine.initializePages: the layout of a fresh engine
initializePages(b) ==
  LET laid == InitLoop(b, InitialChapters(b), 1, EmptyLayout)
  IN  IF Len(laid.pages) = 0
      THEN [pages |-> <<FallbackContent(b)>>,
            chapterPages |-> MapSet(laid.chapterPages, "chapter-1",
                                    <<FallbackContent(b)>>),
            pageToChapter |-> MapSet(laid.pageToChapter, 0, "chapter-1")]
      ELSE laid

\* ------------------------------------------------------------------------
\* ReadingEngine (chapter-based): measured pagination and repaginate
\* ------------------------------------------------------------------------
\* ReadingEngine.wrapText: greedy packing of the words of a paragraph
RECURSIVE WrapLoop(_, _, _, _, _)
WrapLoop(words, k, currentLine, lines, options) ==
  IF k > Len(words)
  THEN IF currentLine # <<>> THEN Append(lines, currentLine) ELSE lines
  ELSE LET word == words[k]
           testLine == IF currentLine # <<>>
                       THEN currentLine \o <<SP>> \o word
                       ELSE word
       IN  IF TooWide(testLine, options) /\ currentLine # <<>>
           THEN WrapLoop(words, k + 1, word, Append(lines, currentLine), options)
           ELSE WrapLoop(words, k + 1, testLine, lines, options)

wrapText(text, options) == WrapLoop(splitChar(text, SP), 1, <<>>, <<>>, options)

\* while (remainingLines.length > 0): spread a paragraph over pages.  With
\* maxLines <= 0 splice(0, availableLines) removes nothing and the loop
\* never ends: hung is set.
RECURSIVE SpreadLoop(_, _, _)
SpreadLoop(remainingLines, st, maxLines) ==
  IF Len(remainingLines) = 0 THEN st
  ELSE IF maxLines <= 0 THEN [st EXCEPT !.hung = TRUE]
  ELSE LET availableLines == maxLines - st.currentLineCount
           n == Max(0, Min(availableLines, Len(remainingLines)))
           linesToAdd == Take(remainingLines, n)
           rest == Drop(remainingLines, n)
           added == [st EXCEPT !.currentPage = @ \o linesToAdd,
                               !.currentLineCount = @ + n]
       IN  IF Len(rest) > 0
           THEN SpreadLoop(rest,
                  [added EXCEPT !.pages = Append(@, join(added.currentPage, <<NL>>)),
                                !.currentPage = <<>>,
                                !.currentLineCount = 0],
                  maxLines)
           ELSE added

\* the body of for (const paragraph of paragraphs)
ParagraphStep(st, paragraph, options) ==
  LET maxLines == maxLinesOf(options)
      lines == wrapText(paragraph, options)
      st1 == IF st.currentLineCount + Len(lines) > maxLines /\ Len(st.currentPage) > 0
             THEN [st EXCEPT !.pages = Append(@, join(st.currentPage, <<NL>>)),
                             !.currentPage = <<>>,
                             !.currentLineCount = 0]
             ELSE st
  IN  IF Len(lines) <= maxLines - st1.currentLineCount
      THEN LET st2 == [st1 EXCEPT !.currentPage = @ \o lines,
                                  !.currentLineCount = @ + Len(lines)]
           IN  IF st2.currentLineCount < maxLines
               THEN [st2 EXCEPT !.currentPage = Append(@, <<>>),
                                !.currentLineCount = @ + 1]
               ELSE st2
      ELSE SpreadLoop(lines, st1, maxLines)

RECURSIVE ParagraphLoop(_, _, _, _)
ParagraphLoop(paragraphs, k, st, options) ==
  IF k > Len(paragraphs) \/ st.hung THEN st
  ELSE ParagraphLoop(paragraphs, k + 1,
                     ParagraphStep(st, paragraphs[k], options), options)

\* ReadingEngine.measureTextPages.  The result carries hung = TRUE when the
\* call never returns.
measureTextPages(text, options, browser) ==
  IF ~browser
  THEN [pages |-> WordSlices(splitChar(text, SP), WordsPerPageEstimate, TRUE),
        hung |-> FALSE]
  ELSE LET st == ParagraphLoop(splitBlankLine(text), 1,
                               [pages |-> <<>>, currentPage |-> <<>>,
                                currentLineCount |-> 0, hung |-> FALSE],
                               options)
       IN  [pages |-> IF Len(st.currentPage) > 0
                      THEN Append(st.pages, join(st.currentPage, <<NL>>))
                      ELSE st.pages,
            hung |-> st.hung]

\* the for loop of ReadingEngine.repaginate over this.book.chapters
RECURSIVE RepaginateLoop(_, _, _, _, _)
RepaginateLoop(chapters, k, acc, options, browser) ==
  IF k > Len(chapters) \/ acc.hung THEN acc
  ELSE LET m == measureTextPages(chapters[k].content, options, browser)
       IN  IF m.hung THEN [acc EXCEPT !.hung = TRUE]
           ELSE LET withMap == [acc EXCEPT !.chapterPages =
                                   MapSet(@, chapters[k].id, m.pages)]
                    pushed == PushPages(withMap, m.pages, chapters[k].id)
                IN  RepaginateLoop(chapters, k + 1, pushed, options, browser)

repaginate(chapters, options, browser) ==
  RepaginateLoop(chapters, 1,
                 [pages |-> <<>>, chapterPages |-> EmptyMap,
                  pageToChapter |-> EmptyMap, hung |-> FALSE],
                 options, browser)

\* ------------------------------------------------------------------------
\* ReadingEngine (chapter-based): state and queries
\* ------------------------------------------------------------------------
\* null, as an object-valued result
Null == [null |-> TRUE]
NaN == "NaN"

\* this.book.chapters.find(c => c.id === chapterId): the 1-based position of
\* the chapter found, 0 when find returns undefined
FindChapter(chapters, chapterId) ==
  LET hits == {i \in 1..Len(chapters) : chapters[i].id = chapterId}
  IN  IF hits = {} THEN 0
      ELSE CHOOSE i \in hits : \A j \in hits : i <= j

\* ReadingEngine.getPageInChapter
RECURSIVE PageInChapterLoop(_, _, _, _)
PageInChapterLoop(i, globalPage, chapterId, pageCount) ==
  IF i > globalPage THEN pageCount
  ELSE IF MapGet(pageToChapter, i) = chapterId
       THEN IF i = globalPage THEN pageCount
            ELSE PageInChapterLoop(i + 1, globalPage, chapterId, pageCount + 1)
       ELSE PageInChapterLoop(i + 1, globalPage, chapterId, 0)

getPageInChapter(globalPage, chapterId) ==
  PageInChapterLoop(0, globalPage, chapterId, 0)

\* ReadingEngine.getPageInfo for an index inside the page range
PageInfoAt(globalPage) ==
  LET chapterId == MapGet(pageToChapter, globalPage)
      found == FindChapter(book.chapters, chapterId)
      chapter == book.chapters[found]
  IN  IF chapterId = Undefined THEN Null
      ELSE IF found = 0
      THEN IF Len(book.chapters) > 0
           THEN [content |-> OrElse(pages[globalPage + 1], NoContent),
                 chapterId |-> book.chapters[1].id,
                 chapterTitle |-> book.chapters[1].title,
                 pageInChapter |-> 0,
                 totalPagesInChapter |-> 1,
                 globalPage |-> globalPage,
                 totalPages |-> Len(pages)]
           ELSE Null
      ELSE [content |-> OrElse(pages[globalPage + 1], NoContentAvailable),
            chapterId |-> chapterId,
            chapterTitle |-> chapter.title,
            pageInChapter |-> getPageInChapter(globalPage, chapterId),
            totalPagesInChapter |->
              Max(1, IF chapterId \in DOMAIN chapterPages
                     THEN Len(chapterPages[chapterId]) ELSE 0),
            globalPage |-> globalPage,
            totalPages |-> Max(1, Len(pages))]

\* ReadingEngine.getPageInfo
getPageInfo(globalPage) ==
  IF globalPage < 0 \/ globalPage >= Len(pages)
  THEN IF Len(pages) > 0
       THEN PageInfoAt(Max(0, Min(globalPage, Len(pages) - 1)))
       ELSE Null
  ELSE PageInfoAt(globalPage)

\* ReadingEngine.getChapterFirstPage
getChapterFirstPage(chapterId) ==
  LET hits == {i \in 0..(Len(pages) - 1) : MapGet(pageToChapter, i) = chapterId}
  IN  IF hits = {} THEN 0
      ELSE CHOOSE i \in hits : \A j \in hits : i <= j

\* ReadingEngine.getPosition
getPosition(globalPage) ==
  LET mapped == MapGet(pageToChapter, globalPage)
      chapterId == IF mapped # Undefined THEN mapped
                   ELSE IF Len(book.chapters) > 0 THEN book.chapters[1].id
                   ELSE Undefined
  IN  [chapterId |-> chapterId,
       pageInChapter |-> getPageInChapter(globalPage, chapterId),
       globalPage |-> globalPage,
       progress |-> IF Len(pages) = 0 THEN NaN
                    ELSE RoundDiv(100 * globalPage, Len(pages))]

\* (this.chapterPages.get(chapter.id)?.length || 1)
StoredPageCount(chapterId) ==
  IF chapterId \in DOMAIN chapterPages /\ Len(chapterPages[chapterId]) # 0
  THEN Len(chapterPages[chapterId])
  ELSE 1

\* ReadingEngine.getChapters
getChapters ==
  [i \in 1..Len(book.chapters) |->
     [id |-> book.chapters[i].id,
      title |-> book.chapters[i].title,
      startPage |-> getChapterFirstPage(book.chapters[i].id),
      endPage |-> getChapterFirstPage(book.chapters[i].id)
                    + StoredPageCount(book.chapters[i].id) - 1,
      pageCount |-> StoredPageCount(book.chapters[i].id)]]

\* ReadingEngine.getTotalPages
getTotalPages == Len(pages)

ContextRadius == 50

\* the while loop of searchText over one page: one hit per indexOf result,
\* resuming searchTerm.length after the start of the previous hit
RECURSIVE OccurrenceLoop(_, _, _, _, _)
OccurrenceLoop(globalPage, chapter, searchTerm, searchIndex, hits) ==
  LET pageContent == toLowerCase(pages[globalPage + 1])
      found == indexOf(pageContent, searchTerm, searchIndex)
      contextStart == Max(0, found - ContextRadius)
      contextEnd == Min(Len(pageContent), found + Len(searchTerm) + ContextRadius)
  IN  IF found = -1 THEN hits
      ELSE OccurrenceLoop(globalPage, chapter, searchTerm,
             found + Len(searchTerm),
             Append(hits,
               [chapterId |-> chapter.id,
                chapterTitle |-> chapter.title,
                pageInChapter |-> getPageInChapter(globalPage, chapter.id),
                globalPage |-> globalPage,
                context |-> substring(pages[globalPage + 1], contextStart, contextEnd),
                matchIndex |-> found]))

RECURSIVE SearchLoop(_, _, _)
SearchLoop(globalPage, searchTerm, hits) ==
  IF globalPage >= Len(pages) THEN hits
  ELSE LET chapterId == MapGet(pageToChapter, globalPage)
           found == FindChapter(book.chapters, chapterId)
       IN  IF chapterId = Undefined \/ found = 0
           THEN SearchLoop(globalPage + 1, searchTerm, hits)
           ELSE SearchLoop(globalPage + 1, searchTerm,
                  OccurrenceLoop(globalPage, book.chapters[found], searchTerm,
                                 0, hits))

\* searchText does not return when the loop over the occurrences cannot
\* advance: an empty search term on a page that belongs to a chapter
SearchHangs(query) ==
  /\ Len(query) = 0
  /\ \E g \in 0..(Len(pages) - 1) :
       /\ MapGet(pageToChapter, g) # Undefined
       /\ FindChapter(book.chapters, MapGet(pageToChapter, g)) # 0

\* ReadingEngine.searchText
searchText(query) == SearchLoop(0, toLowerCase(query), <<>>)

\* ------------------------------------------------------------------------
\* Heuristic strategy: simpleSplitIntoPages
\* ------------------------------------------------------------------------
\* Math.floor((pageWidth - 2 * padding) / (fontSize * 0.6))
charsPerLineOf(options) ==
  (10 * (options.pageWidth - 2 * options.padding)) \div (6 * options.fontSize)

AvgWordLength == 5

\* currentPage.endsWith('\n')
EndsWithNewline(s) == Len(s) > 0 /\ s[Len(s)] = NL

\* for (const sentence of sentences) of the Chinese branch
RECURSIVE SentenceLoop(_, _, _, _)
SentenceLoop(sentences, k, st, charsPerPage) ==
  IF k > Len(sentences) THEN st
  ELSE LET sentence == sentences[k]
       IN  IF st.currentLength + Len(sentence) > charsPerPage /\ st.currentLength > 0
           THEN SentenceLoop(sentences, k + 1,
                  [pages |-> Append(st.pages, st.currentPage),
                   currentPage |-> sentence,
                   currentLength |-> Len(sentence)],
                  charsPerPage)
           ELSE SentenceLoop(sentences, k + 1,
                  [pages |-> st.pages,
                   currentPage |->
                     (IF st.currentPage # <<>> /\ ~EndsWithNewline(st.currentPage)
                      THEN st.currentPage \o <<NL>>
                      ELSE st.currentPage) \o sentence,
                   currentLength |-> st.currentLength + Len(sentence)],
                  charsPerPage)

\* for (const paragraph of paragraphs) of the Chinese branch
RECURSIVE ChineseParagraphLoop(_, _, _, _)
ChineseParagraphLoop(paragraphs, k, st, charsPerPage) ==
  IF k > Len(paragraphs) THEN st
  ELSE LET paragraph == paragraphs[k]
       IN  IF 2 * Len(paragraph) > 3 * charsPerPage
           THEN ChineseParagraphLoop(paragraphs, k + 1,
                  SentenceLoop(splitSentences(paragraph), 1, st, charsPerPage),
                  charsPerPage)
           ELSE IF st.currentLength + Len(paragraph) > charsPerPage
                   /\ st.currentLength > 0
           THEN ChineseParagraphLoop(paragraphs, k + 1,
                  [pages |-> Append(st.pages, st.currentPage),
                   currentPage |-> paragraph,
                   currentLength |-> Len(paragraph)],
                  charsPerPage)
           ELSE ChineseParagraphLoop(paragraphs, k + 1,
                  [pages |-> st.pages,
                   currentPage |->
                     (IF st.currentPage # <<>>
                      THEN st.currentPage \o <<NL, NL>>
                      ELSE st.currentPage) \o paragraph,
                   currentLength |->
                     st.currentLength + Len(paragraph)
                       + (IF st.currentPage # <<>> THEN 2 ELSE 0)],
                  charsPerPage)

\* for (const paragraph of paragraphs) of the English branch
RECURSIVE EnglishParagraphLoop(_, _, _, _)
EnglishParagraphLoop(paragraphs, k, st, wordsPerPage) ==
  IF k > Len(paragraphs) THEN st
  ELSE LET paragraph == paragraphs[k]
           words == splitWords(paragraph)
       IN  IF st.wordCount + Len(words) > wordsPerPage /\ st.wordCount > 0
           THEN EnglishParagraphLoop(paragraphs, k + 1,
                  [pages |-> Append(st.pages, st.currentPage),
                   currentPage |-> paragraph,
                   wordCount |-> Len(words)],
                  wordsPerPage)
           ELSE EnglishParagraphLoop(paragraphs, k + 1,
                  [pages |-> st.pages,
                   currentPage |->
                     (IF st.currentPage # <<>>
                      THEN st.currentPage \o <<NL, NL>>
                      ELSE st.currentPage) \o paragraph,
                   wordCount |-> st.wordCount + Len(words)],
                  wordsPerPage)

\* if (currentPage) pages.push(currentPage)
WithLastPage(st) ==
  IF st.currentPage # <<>> THEN Append(st.pages, st.currentPage) ELSE st.pages

simpleSplitIntoPages(content, options) ==
  LET charsPerLine == charsPerLineOf(options)
      linesPerPage == maxLinesOf(options)
      isMostlyChinese == 2 * chineseCount(content) > Len(content)
  IN  IF isMostlyChinese
      THEN WithLastPage(
             ChineseParagraphLoop(splitLines(content), 1,
               [pages |-> <<>>, currentPage |-> <<>>, currentLength |-> 0],
               charsPerLine * linesPerPage))
      ELSE WithLastPage(
             EnglishParagraphLoop(splitLines(content), 1,
               [pages |-> <<>>, currentPage |-> <<>>, wordCount |-> 0],
               (charsPerLine * linesPerPage) \div AvgWordLength))

\* ------------------------------------------------------------------------
\* Measured strategy: canvasSplitIntoPages
\* ------------------------------------------------------------------------
\* if (currentPageLines.length >= linesPerPage) { pages.push(...); ... }
FlushIfFull(st, linesPerPage) ==
  IF Len(st.currentPageLines) >= linesPerPage
  THEN [st EXCEPT !.pages = Append(@, join(st.currentPageLines, <<NL>>)),
                  !.currentPageLines = <<>>]
  ELSE st

\* the branch of a paragraph that is blank
BlankParagraph(st, linesPerPage) ==
  LET pushed == IF st.currentLine # <<>>
                THEN Append(st.currentPageLines, st.currentLine)
                ELSE st.currentPageLines
  IN  FlushIfFull([st EXCEPT !.currentPageLines = Append(pushed, <<>>),
                             !.currentLine = <<>>],
                  linesPerPage)

\* the end of a paragraph: the open line goes to the page
EndParagraph(st, linesPerPage) ==
  IF st.currentLine # <<>>
  THEN FlushIfFull([st EXCEPT !.currentPageLines = Append(@, st.currentLine),
                              !.currentLine = <<>>],
                   linesPerPage)
  ELSE st

\* for (const word of words) of englishTextPagination
RECURSIVE EnglishWordLoop(_, _, _, _)
EnglishWordLoop(words, k, st, options) ==
  IF k > Len(words) THEN st
  ELSE LET word == words[k]
           testLine == IF st.currentLine # <<>>
                       THEN st.currentLine \o <<SP>> \o word
                       ELSE word
       IN  IF TooWide(testLine, options) /\ st.currentLine # <<>>
           THEN EnglishWordLoop(words, k + 1,
                  FlushIfFull([st EXCEPT !.currentPageLines = Append(@, st.currentLine),
                                         !.currentLine = word],
                              maxLinesOf(options)),
                  options)
           ELSE EnglishWordLoop(words, k + 1,
                  [st EXCEPT !.currentLine = testLine], options)

\* for (let i = 0; i < paragraph.length; i++) of chineseTextPagination
RECURSIVE ChineseCharLoop(_, _, _, _)
ChineseCharLoop(paragraph, i, st, options) ==
  IF i > Len(paragraph) THEN st
  ELSE LET char == paragraph[i]
           testLine == Append(st.currentLine, char)
       IN  IF TooWide(testLine, options)
           THEN ChineseCharLoop(paragraph, i + 1,
                  FlushIfFull([st EXCEPT !.currentPageLines = Append(@, st.currentLine),
                                         !.currentLine = <<char>>],
                              maxLinesOf(options)),
                  options)
           ELSE ChineseCharLoop(paragraph, i + 1,
                  [st EXCEPT !.currentLine = testLine], options)

\* for (const paragraph of paragraphs) of either measured pagination
RECURSIVE MeasuredParagraphLoop(_, _, _, _, _)
MeasuredParagraphLoop(paragraphs, k, st, options, byChar) ==
  IF k > Len(paragraphs) THEN st
  ELSE LET paragraph == paragraphs[k]
           linesPerPage == maxLinesOf(options)
       IN  IF trim(paragraph) = <<>>
           THEN MeasuredParagraphLoop(paragraphs, k + 1,
                  BlankParagraph(st, linesPerPage), options, byChar)
           ELSE MeasuredParagraphLoop(paragraphs, k + 1,
                  EndParagraph(
                    IF byChar
                    THEN ChineseCharLoop(paragraph, 1, st, options)
                    ELSE EnglishWordLoop(splitWords(paragraph), 1, st, options),
                    linesPerPage),
                  options, byChar)

\* if (currentPageLines.length > 0 || currentLine) { ...; pages.push(...) }
MeasuredLastPage(st) ==
  IF Len(st.currentPageLines) > 0 \/ st.currentLine # <<>>
  THEN Append(st.pages,
              join(IF st.currentLine # <<>>
                   THEN Append(st.currentPageLines, st.currentLine)
                   ELSE st.currentPageLines, <<NL>>))
  ELSE st.pages

MeasuredStart == [pages |-> <<>>, currentPageLines |-> <<>>, currentLine |-> <<>>]

englishTextPagination(content, options) ==
  MeasuredLastPage(
    MeasuredParagraphLoop(splitLines(content), 1, MeasuredStart, options, FALSE))

chineseTextPagination(content, options) ==
  MeasuredLastPage(
    MeasuredParagraphLoop(splitLines(content), 1, MeasuredStart, options, TRUE))

\* canvasSplitIntoPages; context2d is whether canvas.getContext('2d') gave
\* a context
canvasSplitIntoPages(content, options, context2d) ==
  IF ~context2d THEN simpleSplitIntoPages(content, options)
  ELSE IF 10 * chineseCount(content) > 3 * Len(content)
  THEN chineseTextPagination(content, options)
  ELSE englishTextPagination(content, options)

\* splitIntoPages of the content-based engine and of the store, after the
\* options are merged with the defaults
splitIntoPages(content, finalOptions, browser, context2d) ==
  IF ~browser THEN simpleSplitIntoPages(content, finalOptions)
  ELSE canvasSplitIntoPages(content, finalOptions, context2d)

\* ------------------------------------------------------------------------
\* Inputs of the chapter-based engine
\* ------------------------------------------------------------------------
MaxChapters == 2
MaxCols == 4
MaxRows == 2
PageProbe == 1

\* a typography whose content box holds cols glyphs by rows lines
Typo(cols, rows) ==
  [fontSize |-> 10, lineHeight |-> 10, pageWidth |-> 6 * cols + 80,
   pageHeight |-> 10 * rows + 80, padding |-> 40]

\* the typographies of a reflow; rows = 0 is a window too low for one line
TypographyChoices == {Typo(c, r) : c \in {2, MaxCols}, r \in 0..MaxRows}

ChapterIds == {"chapter-1", "chapter-2"}
ChapterTitles == {<<"T">>}
ChapterTexts ==
  { <<SP>>,
    <<"a", "a", "a", SP, "A", NL, NL, DotI, "b">> }
BookTexts == { <<>>, <<SP>>, <<"b", SP, "a">> }

ChapterRecords ==
  [id : ChapterIds, title : ChapterTitles, content : ChapterTexts]
ChapterLists ==
  UNION {[1..n -> ChapterRecords] : n \in 0..MaxChapters}

\* the books a reading engine is constructed for
Books == [title : {<<"B">>}, content : BookTexts, chapters : ChapterLists]

Queries == { <<>>, <<SP>>, <<"a">>, <<"A">>, <<"a", "a">>, <<"b">> }

NoCall == [op |-> "none", arg |-> Null, result |-> Null]

\* new ReadingEngine(book)
EngineInit ==
  /\ hasWindow \in BOOLEAN
  /\ enginePc = "ready"
  /\ \E b \in Books :
       LET laid == initializePages(b)
       IN  /\ book = [b EXCEPT !.chapters = InitialChapters(b)]
           /\ pages = laid.pages
           /\ chapterPages = laid.chapterPages
           /\ pageToChapter = laid.pageToChapter
  /\ lastCall = NoCall

\* repaginate without the three resets at its head: the new pages are pushed
\* after the pages of the layout before
RepaginateKeepingPages(options) ==
  /\ enginePc = "ready"
  /\ LET r == RepaginateLoop(book.chapters, 1,
                             [pages |-> pages, chapterPages |-> chapterPages,
                              pageToChapter |-> pageToChapter, hung |-> FALSE],
                             options, hasWindow)
     IN  /\ pages' = r.pages
         /\ chapterPages' = r.chapterPages
         /\ pageToChapter' = r.pageToChapter
         /\ enginePc' = IF r.hung THEN "hung" ELSE "ready"
  /\ lastCall' = [op |-> "repaginate", arg |-> options, result |-> Null]
  /\ UNCHANGED <<book, envVars, importVars, dialogVars, libraryVars, contentVars, paginateVars, viewVars, storeVars>>

\* readingEngine.repaginate(options)
Repaginate(options) ==
  /\ enginePc = "ready"
  /\ LET r == repaginate(book.chapters, options, hasWindow)
     IN  /\ pages' = r.pages
         /\ chapterPages' = r.chapterPages
         /\ pageToChapter' = r.pageToChapter
         /\ enginePc' = IF r.hung THEN "hung" ELSE "ready"
  /\ lastCall' = [op |-> "repaginate", arg |-> options, result |-> Null]
  /\ UNCHANGED <<book, envVars, importVars, dialogVars, libraryVars, contentVars, paginateVars, viewVars, storeVars>>

\* readingEngine.getPageInfo(globalPage)
GetPageInfo(globalPage) ==
  /\ enginePc = "ready"
  /\ lastCall' = [op |-> "getPageInfo", arg |-> globalPage,
                  result |-> getPageInfo(globalPage)]
  /\ UNCHANGED <<enginePc, book, pages, chapterPages, pageToChapter>>
  /\ UNCHANGED <<envVars, importVars, dialogVars, libraryVars, contentVars, paginateVars, viewVars, storeVars>>

\* readingEngine.getPosition(globalPage)
GetPosition(globalPage) ==
  /\ enginePc = "ready"
  /\ lastCall' = [op |-> "getPosition", arg |-> globalPage,
                  result |-> getPosition(globalPage)]
  /\ UNCHANGED <<enginePc, book, pages, chapterPages, pageToChapter>>
  /\ UNCHANGED <<envVars, importVars, dialogVars, libraryVars, contentVars, paginateVars, viewVars, storeVars>>

\* readingEngine.searchText(query)
SearchText(query) ==
  /\ enginePc = "ready"
  /\ IF SearchHangs(query)
     THEN /\ enginePc' = "hung"
          /\ lastCall' = [op |-> "searchText", arg |-> query, result |-> Null]
     ELSE /\ enginePc' = enginePc
          /\ lastCall' = [op |-> "searchText", arg |-> query,
                          result |-> searchText(query)]
  /\ UNCHANGED <<book, pages, chapterPages, pageToChapter>>
  /\ UNCHANGED <<envVars, importVars, dialogVars, libraryVars, contentVars, paginateVars, viewVars, storeVars>>

\* readingEngine.getChapters()
GetChapters ==
  /\ enginePc = "ready"
  /\ lastCall' = [op |-> "getChapters", arg |-> Null, result |-> getChapters]
  /\ UNCHANGED <<enginePc, book, pages, chapterPages, pageToChapter>>
  /\ UNCHANGED <<envVars, importVars, dialogVars, libraryVars, contentVars, paginateVars, viewVars, storeVars>>

EngineNext ==
  \/ \E options \in TypographyChoices : Repaginate(options)
  \/ \E g \in (0 - PageProbe)..(Len(pages) + PageProbe) : GetPageInfo(g)
  \/ \E g \in (0 - PageProbe)..(Len(pages) + PageProbe) : GetPosition(g)
  \/ \E query \in Queries : SearchText(query)
  \/ GetChapters

\* ------------------------------------------------------------------------
\* ReadingEngine (content-based): state and operations
\* ------------------------------------------------------------------------
DefaultFontSize == 18
DefaultLineHeight == 15
DefaultPageWidth == 800
DefaultPageHeight == 600
DefaultPadding == 40

\* the options splitIntoPages starts from, before ...options
DefaultOptions(fontSize, lineHeight) ==
  [fontSize |-> fontSize, lineHeight |-> lineHeight,
   pageWidth |-> DefaultPageWidth, pageHeight |-> DefaultPageHeight,
   padding |-> DefaultPadding]

\* this.book.chapters.find(ch => pageIndex >= ch.startPage - 1 && pageIndex < ch.endPage)
FindChapterByPage(chapters, pageIndex) ==
  LET hits == {i \in 1..Len(chapters) :
                 pageIndex >= chapters[i].startPage - 1
                 /\ pageIndex < chapters[i].endPage}
  IN  IF hits = {} THEN 0
      ELSE CHOOSE i \in hits : \A j \in hits : i <= j

\* ReadingEngine.getPageInfo of the content-based engine, over the book and
\* the pages it holds
PageInfoOf(b, pgs, pageIndex) ==
  LET found == FindChapterByPage(b.chapters, pageIndex)
      chapter == b.chapters[found]
  IN  IF pageIndex < 0 \/ pageIndex >= Len(pgs)
      THEN [content |-> NoContentAvailable,
            chapterId |-> "unknown",
            chapterTitle |-> <<"U","n","k","n","o","w","n">>,
            pageInChapter |-> 0,
            totalPagesInChapter |-> 0,
            globalPage |-> pageIndex,
            totalPages |-> Len(pgs)]
      ELSE IF found = 0
      THEN [content |-> pgs[pageIndex + 1],
            chapterId |-> "unknown",
            chapterTitle |-> <<"U","n","k","n","o","w","n">>,
            pageInChapter |-> 0,
            totalPagesInChapter |-> 0,
            globalPage |-> pageIndex,
            totalPages |-> Len(pgs)]
      ELSE [content |-> pgs[pageIndex + 1],
            chapterId |-> chapter.id,
            chapterTitle |-> chapter.title,
            pageInChapter |-> pageIndex - (chapter.startPage - 1),
            totalPagesInChapter |-> chapter.endPage - chapter.startPage + 1,
            globalPage |-> pageIndex,
            totalPages |-> Len(pgs)]

contentGetPageInfo(pageIndex) == PageInfoOf(contentBook, contentPages, pageIndex)

SearchContextRadius == 20
Ellipsis == <<".", ".", ".">>

\* ReadingEngine.searchText of the content-based engine: at most one result
\* for a page
RECURSIVE ContentSearchLoop(_, _, _)
ContentSearchLoop(i, query, results) ==
  IF i >= Len(contentPages) THEN results
  ELSE LET pageContent == contentPages[i + 1]
           index == indexOf(toLowerCase(pageContent), toLowerCase(query), 0)
           start == Max(0, index - SearchContextRadius)
           end == Min(Len(pageContent), index + Len(query) + SearchContextRadius)
       IN  IF index = -1 THEN ContentSearchLoop(i + 1, query, results)
           ELSE ContentSearchLoop(i + 1, query,
                  Append(results,
                    [text |-> Ellipsis \o substring(pageContent, start, end) \o Ellipsis,
                     page |-> i]))

contentSearchText(query) ==
  IF query = <<>> \/ contentBook.content = <<>> THEN <<>>
  ELSE ContentSearchLoop(0, query, <<>>)

ContentTexts ==
  { <<>>,
    <<NL>>,
    <<"a", SP, "a", "A", NL, NL, "b">>,
    <<CJK, CJK, CJKStop, CJK, NL, "a">> }

ContentChapterLists ==
  { <<>>,
    <<[id |-> "chapter-1", title |-> <<"T">>, startPage |-> 1, endPage |-> 1,
       content |-> <<>>]>>,
    <<[id |-> "chapter-1", title |-> <<"T">>, startPage |-> 1, endPage |-> 1,
       content |-> <<"a", SP, "b">>],
      [id |-> "chapter-2", title |-> <<"T">>, startPage |-> 2, endPage |-> 3,
       content |-> <<SP>>]>> }

\* the books a content-based engine is constructed for
ContentBooks ==
  [title : {<<"B">>}, content : ContentTexts, chapters : ContentChapterLists]

\* new ReadingEngine(book)
ContentInit ==
  /\ hasWindow \in BOOLEAN
  /\ hasContext \in BOOLEAN
  /\ contentPc = "ready"
  /\ contentBook \in ContentBooks
  /\ contentFontSize = DefaultFontSize
  /\ contentLineHeight = DefaultLineHeight
  /\ contentPages =
       splitIntoPages(contentBook.content,
                      DefaultOptions(DefaultFontSize, DefaultLineHeight),
                      hasWindow, hasContext)
  /\ contentCall = NoCall

\* readingEngine.repaginate(options), options naming all six fields
ContentRepaginate(options) ==
  /\ contentPc = "ready"
  /\ contentFontSize' = options.fontSize
  /\ contentLineHeight' = options.lineHeight
  /\ contentPages' = splitIntoPages(contentBook.content, options, hasWindow, hasContext)
  /\ contentCall' = [op |-> "repaginate", arg |-> options, result |-> Null]
  /\ UNCHANGED <<contentPc, contentBook, envVars, importVars, dialogVars, libraryVars, engineVars, paginateVars, viewVars, storeVars>>

\* readingEngine.updateContent(content)
UpdateContent(content) ==
  /\ contentPc = "ready"
  /\ IF content # <<>> /\ trim(content) # <<>>
     THEN /\ contentBook' = [contentBook EXCEPT !.content = content]
          /\ contentPages' =
               splitIntoPages(content,
                              DefaultOptions(contentFontSize, contentLineHeight),
                              hasWindow, hasContext)
     ELSE UNCHANGED <<contentBook, contentPages>>
  /\ contentCall' = [op |-> "updateContent", arg |-> content, result |-> Null]
  /\ UNCHANGED <<contentPc, contentFontSize, contentLineHeight>>
  /\ UNCHANGED <<envVars, importVars, dialogVars, libraryVars, engineVars, paginateVars, viewVars, storeVars>>

\* readingEngine.getPageInfo(pageIndex)
ContentGetPageInfo(pageIndex) ==
  /\ contentPc = "ready"
  /\ contentCall' = [op |-> "getPageInfo", arg |-> pageIndex,
                     result |-> contentGetPageInfo(pageIndex)]
  /\ UNCHANGED <<contentPc, contentBook, contentPages, contentFontSize,
                 contentLineHeight>>
  /\ UNCHANGED <<envVars, importVars, dialogVars, libraryVars, engineVars, paginateVars, viewVars, storeVars>>

\* readingEngine.searchText(query)
ContentSearchText(query) ==
  /\ contentPc = "ready"
  /\ contentCall' = [op |-> "searchText", arg |-> query,
                     result |-> contentSearchText(query)]
  /\ UNCHANGED <<contentPc, contentBook, contentPages, contentFontSize,
                 contentLineHeight>>
  /\ UNCHANGED <<envVars, importVars, dialogVars, libraryVars, engineVars, paginateVars, viewVars, storeVars>>

ContentNext ==
  \/ \E options \in TypographyChoices : ContentRepaginate(options)
  \/ \E content \in ContentTexts : UpdateContent(content)
  \/ \E g \in (0 - PageProbe)..(Len(contentPages) + PageProbe) : ContentGetPageInfo(g)
  \/ \E query \in Queries : ContentSearchText(query)

\* ------------------------------------------------------------------------
\* The pagination functions applied to one text
\* ------------------------------------------------------------------------
MaxTextLen == 4
Alphabet == {"a", SP, NL, CJK, "."}

Texts == UNION {[1..n -> Alphabet] : n \in 0..MaxTextLen}

PaginateInit ==
  /\ inputText \in Texts
  /\ inputOptions \in TypographyChoices
  /\ strategy = "none"
  /\ outcome = [pages |-> <<>>, hung |-> FALSE]

\* simpleSplitIntoPages(text, options)
Heuristic ==
  /\ strategy = "none"
  /\ strategy' = "heuristic"
  /\ outcome' = [pages |-> simpleSplitIntoPages(inputText, inputOptions), hung |-> FALSE]
  /\ UNCHANGED <<inputText, inputOptions, envVars, importVars, dialogVars, libraryVars, engineVars, contentVars, viewVars,
                 storeVars>>

\* canvasSplitIntoPages(text, options) with a canvas context
Measured ==
  /\ strategy = "none"
  /\ strategy' = "measured"
  /\ outcome' = [pages |-> canvasSplitIntoPages(inputText, inputOptions, TRUE),
                 hung |-> FALSE]
  /\ UNCHANGED <<inputText, inputOptions, envVars, importVars, dialogVars, libraryVars, engineVars, contentVars, viewVars,
                 storeVars>>

\* ReadingEngine.measureTextPages(text, options) in a browser
EngineMeasured ==
  /\ strategy = "none"
  /\ strategy' = "engineMeasured"
  /\ outcome' = measureTextPages(inputText, inputOptions, TRUE)
  /\ UNCHANGED <<inputText, inputOptions, envVars, importVars, dialogVars, libraryVars, engineVars, contentVars, viewVars,
                 storeVars>>

\* ReadingEngine.measureTextPages(text, options) without a window
EngineFallback ==
  /\ strategy = "none"
  /\ strategy' = "engineFallback"
  /\ outcome' = measureTextPages(inputText, inputOptions, FALSE)
  /\ UNCHANGED <<inputText, inputOptions, envVars, importVars, dialogVars, libraryVars, engineVars, contentVars, viewVars,
                 storeVars>>

\* the word split of initializePages for a chapter whose content is the text
WordSplit ==
  /\ strategy = "none"
  /\ strategy' = "wordSplit"
  /\ outcome' = [pages |-> InitialChapterPages(
                            [title |-> <<"B">>, content |-> <<>>, chapters |-> <<>>],
                            [id |-> "chapter-1", title |-> <<"T">>, content |-> inputText]),
                hung |-> FALSE]
  /\ UNCHANGED <<inputText, inputOptions, envVars, importVars, dialogVars, libraryVars, engineVars, contentVars, viewVars,
                 storeVars>>

PaginateNext ==
  \/ Heuristic
  \/ Measured
  \/ EngineMeasured
  \/ EngineFallback
  \/ WordSplit

\* ------------------------------------------------------------------------
\* The reading view: ReadingInterface over a content-based engine
\* ------------------------------------------------------------------------
WindowChrome == 200
ReflowPadding == 40

NoTimer == [current |-> 0, timers |-> {}]

\* setTimeout: an id no pending timer has
FreshTimerId(timers) ==
  CHOOSE id \in 1..(Cardinality(timers) + 1) : \A t \in timers : t.id # id

\* clearTimeout(id): a no-op for an id of no pending timer
clearTimeout(timers, id) == {t \in timers : t.id # id}

\* the reflow effect without its clearTimeout
ScheduleReflowNoClear(ref, s, page) ==
  LET id == FreshTimerId(ref.timers)
  IN  [current |-> id,
       timers |-> ref.timers \cup {[id |-> id, settings |-> s,
                                    currentPage |-> page, due |-> FALSE]}]

NoReflow == [fired |-> FALSE]

\* the body of the reflow effect: clear the timer the ref names, when it names
\* one, and schedule a callback that holds this render's settings and
\* currentPage
ScheduleReflow(ref, s, page) ==
  LET kept == IF ref.current # 0 THEN clearTimeout(ref.timers, ref.current)
              ELSE ref.timers
      id == FreshTimerId(kept)
  IN  [current |-> id,
       timers |-> kept \cup {[id |-> id, settings |-> s, currentPage |-> page,
                              due |-> FALSE]}]

\* the toast messages, each one token
CannotRead(title) == <<"cannot read: ">> \o title
NoPagesFound == <<"no readable page found">>

\* the options the timer callback hands to readingEngine.repaginate
ReflowOptions(captured, height) ==
  [fontSize |-> captured.fontSize, lineHeight |-> captured.lineHeight,
   pageWidth |-> captured.pageWidth, pageHeight |-> height - WindowChrome,
   padding |-> ReflowPadding]

\* mergedContent of the page-info effect: every non-blank chapter content
\* followed by a blank line
RECURSIVE MergedContent(_, _)
MergedContent(chapters, k) ==
  IF k > Len(chapters) THEN <<>>
  ELSE (IF chapters[k].content # <<>> /\ trim(chapters[k].content) # <<>>
        THEN chapters[k].content \o <<NL, NL>>
        ELSE <<>>) \o MergedContent(chapters, k + 1)

\* the page info the effect falls back to when it catches an error
ErrorPageInfo(message, title) ==
  [content |-> message,
   chapterId |-> "chapter-1",
   chapterTitle |-> OrElse(title, FullText),
   pageInChapter |-> 0,
   totalPagesInChapter |-> 1,
   globalPage |-> 0,
   totalPages |-> 1]

\* The "Initialize page info" effect, run for the state page cp over the
\* engine's book b and pages pgs; the book object is the one the engine holds,
\* so updateContent changes both.
InitPageEffect(b, pgs, fontSize, lineHeight, cp) ==
  LET bookContent == b.content
      blank == \/ bookContent = <<>>
               \/ trim(bookContent) = <<>>
               \/ bookContent = NoContentAvailable
      merged == MergedContent(b.chapters, 1)
      updates == blank /\ Len(b.chapters) > 0 /\ trim(merged) # <<>>
      b1 == IF updates THEN [b EXCEPT !.content = merged] ELSE b
      pgs1 == IF updates
              THEN splitIntoPages(merged, DefaultOptions(fontSize, lineHeight),
                                  hasWindow, hasContext)
              ELSE pgs
      totalPages == Len(pgs1)
      validPage == Max(0, Min(cp, totalPages - 1))
      info == PageInfoOf(b1, pgs1, validPage)
  IN  IF blank /\ ~updates
      THEN [book |-> b, pages |-> pgs, currentPage |-> cp,
            pageInfo |-> ErrorPageInfo(CannotRead(b.title), b.title)]
      ELSE IF totalPages = 0
      THEN [book |-> b1, pages |-> pgs1, currentPage |-> cp,
            pageInfo |-> ErrorPageInfo(NoPagesFound, b.title)]
      ELSE IF info.content = NoContentAvailable
      THEN [book |-> b1, pages |-> pgs1, currentPage |-> cp,
            pageInfo |-> ErrorPageInfo(CannotRead(b.title), b.title)]
      ELSE [book |-> b1, pages |-> pgs1, currentPage |-> validPage,
            pageInfo |-> info]

\* the typography settings a reader chooses from: two page widths
ViewSettings ==
  {[fontSize |-> 10, lineHeight |-> 10, pageWidth |-> 6 * c + 80] :
     c \in {1, MaxCols}}
\* window heights that leave 1..MaxRows lines to a page
InnerHeights == {10 * r + 80 + WindowChrome : r \in 1..MaxRows}
\* book.currentPage
StartPages == {0, 1}

ViewTexts ==
  { <<>>,
    <<"a", SP, "a", SP, "a", SP, "a", SP, "a">> }
ViewBooks ==
  [title : {<<"B">>}, content : ViewTexts, chapters : ContentChapterLists]

\* the view after its first render and the effects of that render
ViewInit ==
  /\ hasWindow = TRUE
  /\ hasContext \in BOOLEAN
  /\ settings \in ViewSettings
  /\ innerHeight \in InnerHeights
  /\ \E b \in ViewBooks, start \in StartPages :
       LET pgs == splitIntoPages(b.content,
                    DefaultOptions(DefaultFontSize, DefaultLineHeight),
                    hasWindow, hasContext)
           shown == InitPageEffect(b, pgs, DefaultFontSize, DefaultLineHeight, start)
       IN  /\ contentBook = shown.book
           /\ contentPages = shown.pages
           /\ currentPage = shown.currentPage
           /\ pageInfo = shown.pageInfo
           /\ repaginateTimeout = ScheduleReflow(NoTimer, settings, start)
  /\ contentPc = "ready"
  /\ contentFontSize = DefaultFontSize
  /\ contentLineHeight = DefaultLineHeight
  /\ contentCall = NoCall
  /\ viewPc = "open"
  /\ lastReflow = NoReflow

\* updateSettings with other typography: the reflow effect clears the pending
\* timer and schedules one that holds this render's settings and currentPage
UpdateSettings(s) ==
  /\ viewPc = "open"
  /\ s # settings
  /\ settings' = s
  /\ repaginateTimeout' = ScheduleReflow(repaginateTimeout, s, currentPage)
  /\ UNCHANGED <<viewPc, currentPage, pageInfo, innerHeight, lastReflow>>
  /\ UNCHANGED <<envVars, importVars, dialogVars, libraryVars, engineVars, contentVars, paginateVars, storeVars>>

\* the delay of the timers passes: every pending timer has waited its 300 ms
Elapse ==
  /\ viewPc = "open"
  /\ \E t \in repaginateTimeout.timers : ~t.due
  /\ repaginateTimeout' =
       [repaginateTimeout EXCEPT
          !.timers = {[t EXCEPT !.due = TRUE] : t \in repaginateTimeout.timers}]
  /\ UNCHANGED <<viewPc, currentPage, pageInfo, settings, innerHeight, lastReflow>>
  /\ UNCHANGED <<envVars, importVars, dialogVars, libraryVars, engineVars, contentVars, paginateVars, storeVars>>

\* the callback of a timer that has waited its delay: repaginate, then
\* setPageInfo(readingEngine.getPageInfo(currentPage))
ReflowTimer ==
  /\ viewPc = "open"
  /\ \E timer \in repaginateTimeout.timers :
     /\ timer.due
     /\ repaginateTimeout' =
          [repaginateTimeout EXCEPT !.timers = @ \ {timer}]
     /\ LET options == ReflowOptions(timer.settings, innerHeight)
            newPages == splitIntoPages(contentBook.content, options,
                                       hasWindow, hasContext)
            info == PageInfoOf(contentBook, newPages, timer.currentPage)
        IN  /\ contentFontSize' = IF options.fontSize # 0 THEN options.fontSize
                                  ELSE contentFontSize
            /\ contentLineHeight' = IF options.lineHeight # 0 THEN options.lineHeight
                                    ELSE contentLineHeight
            /\ contentPages' = newPages
            /\ contentCall' = [op |-> "repaginate", arg |-> options, result |-> Null]
            /\ pageInfo' = info
            /\ lastReflow' = [fired |-> TRUE,
                              oldPage |-> pageInfo.globalPage,
                              oldTotal |-> pageInfo.totalPages,
                              newPage |-> info.globalPage,
                              newTotal |-> info.totalPages]
  /\ UNCHANGED <<viewPc, currentPage, settings, innerHeight>>
  /\ UNCHANGED <<contentPc, contentBook>>
  /\ UNCHANGED <<envVars, importVars, dialogVars, libraryVars, engineVars, paginateVars, storeVars>>

\* setCurrentPage(page) and the page-info effect the new state triggers
SetCurrentPage(page) ==
  IF page = currentPage
  THEN UNCHANGED <<currentPage, pageInfo, contentBook, contentPages>>
  ELSE LET shown == InitPageEffect(contentBook, contentPages, contentFontSize,
                                   contentLineHeight, page)
       IN  /\ currentPage' = shown.currentPage
           /\ pageInfo' = shown.pageInfo
           /\ contentBook' = shown.book
           /\ contentPages' = shown.pages

\* nextPage
NextPage ==
  /\ viewPc = "open"
  /\ pageInfo.globalPage < pageInfo.totalPages - 1
  /\ SetCurrentPage(pageInfo.globalPage + 1)
  /\ UNCHANGED <<viewPc, settings, innerHeight, repaginateTimeout, lastReflow>>
  /\ UNCHANGED <<contentPc, contentFontSize, contentLineHeight, contentCall>>
  /\ UNCHANGED <<envVars, importVars, dialogVars, libraryVars, engineVars, paginateVars, storeVars>>

\* prevPage
PrevPage ==
  /\ viewPc = "open"
  /\ pageInfo.globalPage > 0
  /\ SetCurrentPage(pageInfo.globalPage - 1)
  /\ UNCHANGED <<viewPc, settings, innerHeight, repaginateTimeout, lastReflow>>
  /\ UNCHANGED <<contentPc, contentFontSize, contentLineHeight, contentCall>>
  /\ UNCHANGED <<envVars, importVars, dialogVars, libraryVars, engineVars, paginateVars, storeVars>>

\* goToPage(page)
GoToPage(page) ==
  /\ viewPc = "open"
  /\ SetCurrentPage(Max(0, Min(page, Len(contentPages) - 1)))
  /\ UNCHANGED <<viewPc, settings, innerHeight, repaginateTimeout, lastReflow>>
  /\ UNCHANGED <<contentPc, contentFontSize, contentLineHeight, contentCall>>
  /\ UNCHANGED <<envVars, importVars, dialogVars, libraryVars, engineVars, paginateVars, storeVars>>

\* the window is resized; no effect depends on its height
Resize(height) ==
  /\ viewPc = "open"
  /\ height # innerHeight
  /\ innerHeight' = height
  /\ UNCHANGED <<viewPc, currentPage, pageInfo, settings, repaginateTimeout,
                 lastReflow>>
  /\ UNCHANGED <<envVars, importVars, dialogVars, libraryVars, engineVars, contentVars, paginateVars, storeVars>>

ViewNext ==
  \/ \E s \in ViewSettings : UpdateSettings(s)
  \/ Elapse
  \/ ReflowTimer
  \/ NextPage
  \/ PrevPage
  \/ \E page \in (0 - PageProbe)..(Len(contentPages) + PageProbe) : GoToPage(page)
  \/ \E height \in InnerHeights : Resize(height)

\* ------------------------------------------------------------------------
\* The useReadingEngine store
\* ------------------------------------------------------------------------
SessionCap == 1800000
\* the clock advances in steps of a quarter of an hour
TickMs == 900000
MaxTicks == 2

\* NaN as a page number: an integer no page takes
StoreNaN == 0 - 1

NoUpdate == [updated |-> FALSE]

\* trackReadingTime at time t
trackReadingTime(timeSpent, lastReadTimestamp, t) ==
  IF lastReadTimestamp > 0
  THEN [timeSpent |-> timeSpent + Min(t - lastReadTimestamp, SessionCap),
        lastReadTimestamp |-> t]
  ELSE [timeSpent |-> timeSpent, lastReadTimestamp |-> t]

\* currentBook.chapters.findIndex(chapter => page >= chapter.startPage &&
\* page <= chapter.endPage), 0-based and -1 when there is none
FindChapterIndex(chapters, page) ==
  LET hits == {i \in 1..Len(chapters) :
                 page >= chapters[i].startPage /\ page <= chapters[i].endPage}
  IN  IF hits = {} THEN 0 - 1
      ELSE (CHOOSE i \in hits : \A j \in hits : i <= j) - 1

\* setPage(page) called while currentChapter is chapter
setPage(page, chapter) ==
  LET found == IF storeBook = Null THEN 0 - 1
               ELSE FindChapterIndex(storeBook.chapters, page)
      tracked == trackReadingTime(storeTimeSpent, storeLastRead, now)
  IN  IF page < 1 \/ page > Len(storePages) \/ page = storePage
      THEN [currentPage |-> storePage, currentChapter |-> chapter,
            timeSpent |-> storeTimeSpent, lastReadTimestamp |-> storeLastRead]
      ELSE [currentPage |-> page,
            currentChapter |-> IF found # 0 - 1 /\ found # chapter
                               THEN found ELSE chapter,
            timeSpent |-> tracked.timeSpent,
            lastReadTimestamp |-> tracked.lastReadTimestamp]

\* Math.max(1, Math.min(Math.round(currentPageProgress * pages.length),
\* pages.length)) where currentPageProgress is page / oldLength; a division
\* by 0 gives Infinity, and Infinity * 0 gives NaN
ProgressPage(page, oldLength, newLength) ==
  IF page = StoreNaN THEN StoreNaN
  ELSE IF oldLength = 0
  THEN (IF newLength = 0 THEN StoreNaN ELSE Max(1, newLength))
  ELSE Max(1, Min(RoundDiv(page * newLength, oldLength), newLength))

StoreFontSizes == {18, 240, 400}
StoreLineHeights == {10, 15}
StoreThemes == {"light", "dark"}
\* the prefs of updateReadingPreference: any part of the preferences
StorePrefs ==
  {[fontSize |-> f] : f \in StoreFontSizes}
    \cup {[lineHeight |-> l] : l \in StoreLineHeights}
    \cup {[theme |-> t] : t \in StoreThemes}
    \cup {[fontSize |-> f, lineHeight |-> l] :
            f \in StoreFontSizes, l \in StoreLineHeights}

StoreTexts ==
  { <<>>,
    <<SP>>,
    <<NL>>,
    <<"a", SP, "a", SP, "a", SP, "a", SP, "a">> }
StoreBooks ==
  [title : {<<"B">>}, content : StoreTexts, chapters : ContentChapterLists]

\* create(...): the store before any call
StoreInit ==
  /\ hasWindow \in BOOLEAN
  /\ hasContext = TRUE
  /\ storeBook = Null
  /\ storePage = 1
  /\ storeChapter = 0
  /\ storePages = <<>>
  /\ storeFontSize = DefaultFontSize
  /\ storeLineHeight = DefaultLineHeight
  /\ storeTheme = "light"
  /\ storeTimeSpent = 0
  /\ storeLastRead = 0
  /\ now = 1
  /\ storeCall = NoUpdate

\* time passes
Tick ==
  /\ now < 1 + MaxTicks * TickMs
  /\ now' = now + TickMs
  /\ UNCHANGED <<storeBook, storePage, storeChapter, storePages, storeFontSize,
                 storeLineHeight, storeTheme, storeTimeSpent, storeLastRead,
                 storeCall>>
  /\ UNCHANGED <<envVars, importVars, dialogVars, libraryVars, engineVars, contentVars, paginateVars, viewVars>>

\* setBook(book)
SetBook(b) ==
  /\ IF b.content = <<>>
     THEN UNCHANGED <<storeBook, storePage, storeChapter, storePages,
                      storeLastRead>>
     ELSE /\ storeBook' = b
          /\ storePage' = 1
          /\ storeChapter' = 0
          /\ storePages' =
               splitIntoPages(b.content,
                              DefaultOptions(storeFontSize, storeLineHeight),
                              hasWindow, hasContext)
          /\ storeLastRead' = now
  /\ UNCHANGED <<storeFontSize, storeLineHeight, storeTheme, storeTimeSpent,
                 now, storeCall>>
  /\ UNCHANGED <<envVars, importVars, dialogVars, libraryVars, engineVars, contentVars, paginateVars, viewVars>>

\* the state a setPage call leaves
ApplySetPage(after) ==
  /\ storePage' = after.currentPage
  /\ storeChapter' = after.currentChapter
  /\ storeTimeSpent' = after.timeSpent
  /\ storeLastRead' = after.lastReadTimestamp
  /\ UNCHANGED <<storeBook, storePages, storeFontSize, storeLineHeight,
                 storeTheme, now, storeCall>>
  /\ UNCHANGED <<envVars, importVars, dialogVars, libraryVars, engineVars, contentVars, paginateVars, viewVars>>

\* setPage(page)
SetPage(page) == ApplySetPage(setPage(page, storeChapter))

\* setChapter(chapter)
SetChapter(chapter) ==
  IF storeBook = Null \/ chapter < 0 \/ chapter >= Len(storeBook.chapters)
  THEN UNCHANGED vars
  ELSE ApplySetPage(setPage(storeBook.chapters[chapter + 1].startPage, chapter))

\* nextPage(); a comparison with NaN is false
StoreNextPage ==
  /\ storePage # StoreNaN
  /\ storePage < Len(storePages)
  /\ ApplySetPage(setPage(storePage + 1, storeChapter))

\* prevPage()
StorePrevPage ==
  /\ storePage # StoreNaN
  /\ storePage > 1
  /\ ApplySetPage(setPage(storePage - 1, storeChapter))

\* updateReadingPreference(prefs)
UpdateReadingPreference(prefs) ==
  LET newFontSize == IF "fontSize" \in DOMAIN prefs THEN prefs.fontSize
                     ELSE storeFontSize
      newLineHeight == IF "lineHeight" \in DOMAIN prefs THEN prefs.lineHeight
                       ELSE storeLineHeight
      newPages == splitIntoPages(storeBook.content,
                                 DefaultOptions(newFontSize, newLineHeight),
                                 hasWindow, hasContext)
      newPage == ProgressPage(storePage, Len(storePages), Len(newPages))
  IN  /\ storeFontSize' = newFontSize
      /\ storeLineHeight' = newLineHeight
      /\ storeTheme' = IF "theme" \in DOMAIN prefs THEN prefs.theme ELSE storeTheme
      /\ IF ("fontSize" \in DOMAIN prefs \/ "lineHeight" \in DOMAIN prefs)
            /\ storeBook # Null
         THEN /\ storePages' = newPages
              /\ storePage' = newPage
              /\ storeCall' = [updated |-> TRUE,
                               oldPage |-> storePage,
                               oldTotal |-> Len(storePages),
                               newPage |-> newPage,
                               newTotal |-> Len(newPages)]
         ELSE UNCHANGED <<storePages, storePage, storeCall>>
      /\ UNCHANGED <<storeBook, storeChapter, storeTimeSpent, storeLastRead, now>>
      /\ UNCHANGED <<envVars, importVars, dialogVars, libraryVars, engineVars, contentVars, paginateVars, viewVars>>

\* resetEngine()
ResetEngine ==
  /\ storeBook' = Null
  /\ storePage' = 1
  /\ storeChapter' = 0
  /\ storePages' = <<>>
  /\ storeLastRead' = 0
  /\ UNCHANGED <<storeFontSize, storeLineHeight, storeTheme, storeTimeSpent,
                 now, storeCall>>
  /\ UNCHANGED <<envVars, importVars, dialogVars, libraryVars, engineVars, contentVars, paginateVars, viewVars>>

StoreNext ==
  \/ Tick
  \/ \E b \in StoreBooks : SetBook(b)
  \/ \E page \in (0 - PageProbe)..(Len(storePages) + PageProbe) : SetPage(page)
  \/ \E chapter \in (0 - 1)..MaxChapters : SetChapter(chapter)
  \/ StoreNextPage
  \/ StorePrevPage
  \/ \E prefs \in StorePrefs : UpdateReadingPreference(prefs)
  \/ ResetEngine

\* ------------------------------------------------------------------------
\* BookParser: plain text
\* ------------------------------------------------------------------------
ReplacementChar == "U+FFFD"

\* least index from i on whose character is outside the class, Len(s) + 1
\* when the class runs to the end: where a greedy X* that starts at i stops
Skip(s, i, class) ==
  CHOOSE j \in i..(Len(s) + 1) :
    /\ \A k \in i..(j - 1) : s[k] \in class
    /\ (j = Len(s) + 1 \/ s[j] \notin class)

SpaceChars == {SP, NL, CR, TAB}
DigitChars == {"0", "1", "2", "3", "4", "5", "6", "7", "8", "9"}

\* s starts, from index i on, with the letters of word, in either case
HasWordAt(s, i, word) ==
  /\ i + Len(word) - 1 <= Len(s)
  /\ \A k \in 1..Len(word) : LowerChar(s[i + k - 1]) = LowerChar(word[k])

\* s.includes(t)
includes(s, t) == indexOf(s, t, 0) # -1

\* filename.replace(/\.[^/.]+$/, '')
StripExtension(name) ==
  LET dots == {i \in 1..(Len(name) - 1) :
                 /\ name[i] = "."
                 /\ \A k \in (i + 1)..Len(name) : name[k] \notin {"/", "."}}
  IN  IF dots = {} THEN name
      ELSE Take(name, (CHOOSE i \in dots : TRUE) - 1)

\* text.replace(/\n{3,}/g, '\n\n')
RECURSIVE SqueezeBlankLines(_)
SqueezeBlankLines(s) ==
  IF s = <<>> THEN <<>>
  ELSE IF s[1] = NL
  THEN LET e == Skip(s, 1, {NL})
       IN  (IF e - 1 >= 3 THEN <<NL, NL>> ELSE Take(s, e - 1))
             \o SqueezeBlankLines(Drop(s, e - 1))
  ELSE <<s[1]>> \o SqueezeBlankLines(Tail(s))

\* text.replace(/([。？！.!?])\s*(?=\S)/g, '$1\n'): a line break after every
\* sentence terminator that text follows, in place of the white space between
RECURSIVE BreakSentences(_)
BreakSentences(s) ==
  IF s = <<>> THEN <<>>
  ELSE IF IsSentenceEnd(s[1]) /\ Skip(s, 2, SpaceChars) <= Len(s)
  THEN <<s[1], NL>> \o BreakSentences(Drop(s, Skip(s, 2, SpaceChars) - 1))
  ELSE <<s[1]>> \o BreakSentences(Tail(s))

\* the replacements of the curly quotes by straight ones
StraightQuote(c) ==
  IF c \in {"U+201C", "U+201D"} THEN "\""
  ELSE IF c \in {"U+2018", "U+2019"} THEN "'"
  ELSE c

\* text.replace(/\r\n/g, '\n').replace(/\r/g, '\n')
RECURSIVE UnifyLineEnds(_)
UnifyLineEnds(s) ==
  IF s = <<>> THEN <<>>
  ELSE IF s[1] = CR
  THEN <<NL>> \o UnifyLineEnds(Drop(s, IF Len(s) >= 2 /\ s[2] = NL THEN 2 ELSE 1))
  ELSE <<s[1]>> \o UnifyLineEnds(Tail(s))

\* BookParser.preprocessText
preprocessText(text) ==
  LET noReplacement == SelectSeq(text, LAMBDA c : c # ReplacementChar)
      squeezed == SqueezeBlankLines(noReplacement)
      broken == BreakSentences(squeezed)
      quoted == [i \in 1..Len(broken) |-> StraightQuote(broken[i])]
  IN  UnifyLineEnds(quoted)

\* BookParser.isChapterTitle, the patterns in the order of the source
isChapterTitle(line) ==
  LET t == trim(line)
      Di == "U+7B2C"
      numerals == {"U+4E00", "U+4E8C", "U+4E09", "U+56DB", "U+4E94", "U+516D",
                   "U+4E03", "U+516B", "U+4E5D", "U+5341", "U+767E", "U+5343",
                   "U+4E07"}
      units == {"U+7AE0", "U+8282", "U+5377", "U+7BC7", "U+56DE", "U+96C6"}
      opening == {"U+FF08", "(", "U+3010", "U+FF3B", "["}
      pairs == {<<"U+5E8F", "U+7AE0">>, <<"U+5E8F", "U+8A00">>,
                <<"U+524D", "U+8A00">>, <<"U+524D", "U+8FF0">>,
                <<"U+540E", "U+8BB0">>, <<"U+540E", "U+7BC7">>,
                <<"U+540E", "U+7AE0">>, <<"U+7EC8", "U+7AE0">>,
                <<"U+7EC8", "U+7ED3">>, <<"U+5C3E", "U+58F0">>,
                <<"U+5C3E", "U+7AE0">>, <<"U+5C3E", "U+7BC7">>,
                <<"U+9644", "U+5F55">>, <<"U+9644", "U+7BC7">>}
      numbered == {<<"C", "h", "a", "p", "t", "e", "r">>, <<"P", "a", "r", "t">>,
                   <<"S", "e", "c", "t", "i", "o", "n">>, <<"B", "o", "o", "k">>,
                   <<"V", "o", "l", "u", "m", "e">>}
      named == {<<"E", "p", "i", "l", "o", "g", "u", "e">>,
                <<"P", "r", "o", "l", "o", "g", "u", "e">>,
                <<"I", "n", "t", "r", "o", "d", "u", "c", "t", "i", "o", "n">>,
                <<"P", "r", "e", "f", "a", "c", "e">>,
                <<"A", "f", "t", "e", "r", "w", "o", "r", "d">>,
                <<"A", "p", "p", "e", "n", "d", "i", "x">>}
      roman == {"I", "V", "X", "L", "C", "D", "M", "i", "v", "x", "l", "c", "d", "m"}
      \* [numerals and digits]+ from index i, then one of the units
      Counted(i) ==
        LET e == Skip(t, i, numerals \cup DigitChars)
        IN  e > i /\ e <= Len(t) /\ t[e] \in units
      \* /^第\s*[numerals\d]+\s*[units]/ (and /^第\d+[units]/, a case of it)
      ordinal ==
        /\ Len(t) >= 1 /\ t[1] = Di
        /\ LET a == Skip(t, 2, SpaceChars)
               b == Skip(t, a, numerals \cup DigitChars)
               c == Skip(t, b, SpaceChars)
           IN  b > a /\ c <= Len(t) /\ t[c] \in units
      \* /^[numerals]+、/
      listed ==
        LET e == Skip(t, 1, numerals)
        IN  e > 1 /\ e <= Len(t) /\ t[e] = "U+3001"
      \* /^[opening]?第?[numerals\d]+[units][closing]?/
      bracketed ==
        \E a \in {1, 2} :
          /\ (a = 2 => Len(t) >= 1 /\ t[1] \in opening)
          /\ \/ Counted(a)
             \/ (a <= Len(t) /\ t[a] = Di /\ Counted(a + 1))
      \* /^X\s+\d+/i for a word X
      wordAndNumber(word) ==
        /\ HasWordAt(t, 1, word)
        /\ LET e == Skip(t, Len(word) + 1, SpaceChars)
           IN  e > Len(word) + 1 /\ e <= Len(t) /\ IsDigit(t[e])
      \* /^CHAPTER\s+[IVXLCDM]+/i
      romanChapter ==
        /\ HasWordAt(t, 1, <<"C", "h", "a", "p", "t", "e", "r">>)
        /\ LET e == Skip(t, 8, SpaceChars)
           IN  e > 8 /\ e <= Len(t) /\ t[e] \in roman
      \* /^\d+\.\s*[A-Z]/
      numberDot ==
        LET a == Skip(t, 1, DigitChars)
        IN  /\ a > 1 /\ a <= Len(t) /\ t[a] = "."
            /\ LET b == Skip(t, a + 1, SpaceChars)
               IN  b <= Len(t) /\ IsUpper(t[b])
      \* /^\d+\s*[\.\:]\s*[^\d]/: a white space is itself a [^\d], so the
      \* character after the mark decides
      numberColon ==
        LET a == Skip(t, 1, DigitChars)
            b == Skip(t, a, SpaceChars)
        IN  /\ a > 1 /\ b <= Len(t) /\ t[b] \in {".", ":"}
            /\ b + 1 <= Len(t)
            /\ ~IsDigit(t[b + 1])
      \* /^[A-Z\s]{3,20}$/
      capitals ==
        /\ Len(t) >= 3 /\ Len(t) <= 20
        /\ \A k \in 1..Len(t) : IsUpper(t[k]) \/ IsSpace(t[k])
  IN  /\ Len(t) >= 2
      /\ Len(t) <= 40
      /\ \/ ordinal
         \/ listed
         \/ bracketed
         \/ \E p \in pairs : Len(t) >= 2 /\ t[1] = p[1] /\ t[2] = p[2]
         \/ \E word \in numbered : wordAndNumber(word)
         \/ romanChapter
         \/ \E word \in named : HasWordAt(t, 1, word)
         \/ numberDot
         \/ numberColon
         \/ capitals

\* [\u4e00-\u9fff\u3000-\u303f\uff00-\uffef] over the characters of the model
WideChars ==
  {CJK, CJKStop, WideBang, WideQuery, "U+3001", "U+3010", "U+FF08", "U+FF0C",
   "U+FF3B", "U+4E00", "U+4E03", "U+4E07", "U+4E09", "U+4E5D", "U+4E8C",
   "U+4E94", "U+4F5C", "U+5168", "U+516B", "U+516D", "U+524D", "U+5341",
   "U+5343", "U+5377", "U+540E", "U+56DB", "U+56DE", "U+58F0", "U+5C3E",
   "U+5E8F", "U+5F55", "U+6587", "U+767E", "U+7AE0", "U+7B2C", "U+7BC7",
   "U+7EC8", "U+7ED3", "U+8005", "U+8282", "U+8A00", "U+8BB0", "U+8FF0",
   "U+9644", "U+96C6", "U+9762", "U+9875"}
\* [.,!?;:"'()[\]{}]
HalfWidthMarks ==
  {".", ",", "!", "?", ";", ":", "\"", "'", "(", ")", "[", "]", "{", "}"}

\* the number of maximal runs of characters of the class in s: the matches of
\* /[class]+/g
RunCount(s, class) ==
  Cardinality({i \in 1..Len(s) :
                 s[i] \in class /\ (i = 1 \/ s[i - 1] \notin class)})

\* BookParser.countWords, in halves of a word: a half-width mark counts for
\* half a word, and the total is at least one word
countHalfWords(text) ==
  Max(2,
      2 * (Cardinality({i \in 1..Len(text) : text[i] \in WideChars})
           + englishWordCount(text)
           + RunCount(text, DigitChars))
      + Cardinality({i \in 1..Len(text) : text[i] \in HalfWidthMarks}))

EstimateWordsPerPage == 300
\* BookParser.calculatePages with the default wordsPerPage
calculatePages(text) ==
  Max(1, CeilDiv(countHalfWords(text), 2 * EstimateWordsPerPage))

MinChapterLines == 3
MaxHeadingDensity == 3
MinHeadingGap == 3
PrefaceMinLines == 10
PrefaceMinLength == 100

WholeText == <<"U+5168", "U+6587">>
Foreword == <<"U+524D", "U+8A00">>
\* `chapter-${n}`
ChapterId(n) ==
  <<"chapter-1", "chapter-2", "chapter-3", "chapter-4", "chapter-5",
    "chapter-6", "chapter-7", "chapter-8", "chapter-9">>[n]

\* a chapter of pageCount estimated pages from startPage on
Paged(chapter, startPage, pageCount) ==
  [id |-> chapter.id, title |-> chapter.title,
   startPage |-> startPage, endPage |-> startPage + pageCount - 1,
   content |-> chapter.content]

\* the chapters left where they were built
ShiftNoPages(chapters, pageCount) == chapters

\* ch.startPage += pageCount; ch.endPage += pageCount, for every chapter
ShiftPages(chapters, pageCount) ==
  [k \in 1..Len(chapters) |->
     [chapters[k] EXCEPT !.startPage = @ + pageCount,
                         !.endPage = @ + pageCount]]

\* the second pass of parseTextChapters over the headings kept, each a
\* 0-based line index
RECURSIVE ChapterLoop(_, _, _, _)
ChapterLoop(lines, heads, i, chapters) ==
  IF i > Len(heads) THEN chapters
  ELSE LET startIndex == heads[i]
           endIndex == IF i < Len(heads) THEN heads[i + 1] - 1 ELSE Len(lines) - 1
           chapterContent == join(SubSeq(lines, startIndex + 2, endIndex + 1), <<NL>>)
       IN  IF endIndex - startIndex < MinChapterLines
              \/ trim(chapterContent) = <<>>
           THEN ChapterLoop(lines, heads, i + 1, chapters)
           ELSE ChapterLoop(lines, heads, i + 1,
                  Append(chapters,
                         Paged([id |-> ChapterId(Len(chapters) + 1),
                                title |-> trim(lines[startIndex + 1]),
                                content |-> chapterContent],
                               IF Len(chapters) > 0
                               THEN chapters[Len(chapters)].endPage + 1
                               ELSE 1,
                               calculatePages(chapterContent))))

\* the first pass of parseTextChapters: the 0-based indices of the lines that
\* are chapter titles
PotentialChapters(lines) ==
  SelectSeq([i \in 1..Len(lines) |-> i - 1],
            LAMBDA i : /\ trim(lines[i + 1]) # <<>>
                       /\ isChapterTitle(trim(lines[i + 1])))

\* the filter of the headings that follow the one before too closely, applied
\* when there are more than MaxHeadingDensity of them
FilterDense(found) ==
  IF Len(found) > MaxHeadingDensity
  THEN SelectSeq(found,
         LAMBDA index :
           \/ index = found[1]
           \/ \E k \in 2..Len(found) :
                found[k] = index /\ found[k] - found[k - 1] > MinHeadingGap)
  ELSE found

\* the shift of the chapters built by the pages of the preface, and the
\* preface put in front of them
Unshift(preface, chapters) ==
  <<preface>> \o ShiftPages(chapters, preface.endPage)

\* the chapters of the second pass, after the preface if the text before the
\* first heading is long enough
WithPreface(lines, heads, split) ==
  IF /\ Len(heads) > 0
     /\ heads[1] > PrefaceMinLines
     /\ Len(trim(join(SubSeq(lines, 1, heads[1]), <<NL>>))) > PrefaceMinLength
  THEN Unshift(Paged([id |-> "chapter-preface", title |-> Foreword,
                      content |-> join(SubSeq(lines, 1, heads[1]), <<NL>>)],
                     1,
                     calculatePages(join(SubSeq(lines, 1, heads[1]), <<NL>>))),
               split)
  ELSE split

\* the single chapter of the whole text, for a text without chapters
OrWholeText(text, chapters) ==
  IF Len(chapters) = 0
  THEN <<Paged([id |-> "chapter-1", title |-> WholeText, content |-> text],
               1, calculatePages(text))>>
  ELSE chapters

ChaptersOfLines(lines, heads) ==
  WithPreface(lines, heads, ChapterLoop(lines, heads, 1, <<>>))

\* BookParser.parseTextChapters
parseTextChapters(text) ==
  OrWholeText(text,
    ChaptersOfLines(splitChar(text, NL),
                    FilterDense(PotentialChapters(splitChar(text, NL)))))

\* the placeholder parseText puts in the place of a blank text: a sentence of
\* thirteen ideographs, a full stop, three ideographs, a colon, the file name
EmptyFileNotice(name) ==
  [i \in 1..13 |-> CJK] \o <<CJKStop, CJK, CJK, CJK, ":", SP>> \o name

\* BookParser.extractTitle
extractTitle(filename, lines) ==
  LET usable == {i \in 1..Min(10, Len(lines)) :
                   LET line == trim(lines[i])
                   IN  /\ Len(line) > 0 /\ Len(line) < 100
                       /\ ~includes(line, <<"U+4F5C", "U+8005">>)
                       /\ ~includes(line, <<"A", "u", "t", "h", "o", "r">>)
                       /\ ~includes(line, <<"C", "h", "a", "p", "t", "e", "r">>)
                       /\ ~includes(line, <<"U+7B2C">>)
                       /\ ~isChapterTitle(line)}
  IN  IF usable = {} THEN filename
      ELSE trim(lines[CHOOSE i \in usable : \A j \in usable : i <= j])

\* BookParser.parseText on a file whose bytes decode, as UTF-8, to decoded
parseText(name, decoded) ==
  LET text0 == IF decoded = <<>> \/ trim(decoded) = <<>>
               THEN EmptyFileNotice(name)
               ELSE decoded
      text == preprocessText(text0)
      lines == SelectSeq(splitChar(text, NL), LAMBDA line : trim(line) # <<>>)
      filename == StripExtension(name)
      detected == parseTextChapters(text)
      hasValidChapters ==
        \E i \in 1..Len(detected) : trim(detected[i].content) # <<>>
  IN  [title |-> OrElse(extractTitle(filename, lines), filename),
       content |-> text,
       chapters |-> IF Len(detected) = 0 \/ ~hasValidChapters
                    THEN <<Paged([id |-> "chapter-1", title |-> WholeText,
                                  content |-> text],
                                 1, calculatePages(text))>>
                    ELSE detected,
       totalPages |-> calculatePages(text)]

\* ------------------------------------------------------------------------
\* BookParser: PDF
\* ------------------------------------------------------------------------
RowTolerance == 5
PdfMinHeading == 2
PdfMaxHeading == 100
PdfMaxCapitalised == 50
PdfChapterCount == 20

Abs(n) == IF n < 0 THEN 0 - n ELSE n

DecimalDigits == <<"0", "1", "2", "3", "4", "5", "6", "7", "8", "9">>
\* String(n) of a natural number
RECURSIVE NumberToString(_)
NumberToString(n) ==
  IF n < 10 THEN <<DecimalDigits[n + 1]>>
  ELSE NumberToString(n \div 10) \o <<DecimalDigits[(n % 10) + 1]>>

\* the comparator of the sort of a page's items is negative: rows from the
\* top of the page, and columns from the left within RowTolerance of a row
SortsBefore(a, b) ==
  IF Abs(b.y - a.y) > RowTolerance THEN b.y - a.y < 0 ELSE a.x - b.x < 0

\* Array.prototype.sort, which is stable, for items whose rows are more than
\* 2 * RowTolerance apart, where the comparator is a consistent order
RECURSIVE SortItems(_)
SortItems(items) ==
  IF items = <<>> THEN <<>>
  ELSE LET sorted == SortItems(Take(items, Len(items) - 1))
           item == items[Len(items)]
           later == {k \in 1..Len(sorted) : SortsBefore(item, sorted[k])}
           at == IF later = {} THEN Len(sorted) + 1
                 ELSE CHOOSE k \in later : \A l \in later : k <= l
       IN  Take(sorted, at - 1) \o <<item>> \o Drop(sorted, at - 1)

\* the loop that organises the sorted items of a page into lines
RECURSIVE GroupLines(_, _, _, _)
GroupLines(items, lastY, lines, currentLine) ==
  IF items = <<>>
  THEN IF Len(currentLine) > 0 THEN Append(lines, currentLine) ELSE lines
  ELSE IF lastY = -1 \/ Abs(items[1].y - lastY) <= RowTolerance
       THEN GroupLines(Tail(items), items[1].y, lines,
                       Append(currentLine, items[1]))
       ELSE GroupLines(Tail(items), items[1].y,
                       IF Len(currentLine) > 0 THEN Append(lines, currentLine)
                       ELSE lines,
                       <<items[1]>>)

\* the text of one page: the items of a line joined by a space, the lines by
\* a line feed
PdfPageText(items) ==
  LET lines == GroupLines(SortItems(items), -1, <<>>, <<>>)
  IN  join([l \in 1..Len(lines) |->
              join([k \in 1..Len(lines[l]) |-> lines[l][k].str], <<SP>>)],
           <<NL>>)

\* the page loop of parsePdf: a page that fails to load leaves an empty
\* string in pages and nothing in fullContent
RECURSIVE PdfPageLoop(_, _)
PdfPageLoop(pdfPages, acc) ==
  IF pdfPages = <<>> THEN acc
  ELSE IF pdfPages[1].ok
       THEN LET pageText == PdfPageText(pdfPages[1].items)
            IN  PdfPageLoop(Tail(pdfPages),
                  [pages |-> Append(acc.pages, pageText),
                   fullContent |-> acc.fullContent \o pageText \o <<NL, NL>>])
       ELSE PdfPageLoop(Tail(pdfPages),
                        [acc EXCEPT !.pages = Append(@, <<>>)])

\* the test parsePdf applies to a trimmed line of a page
isPdfHeading(line) ==
  LET numerals == {"U+4E00", "U+4E8C", "U+4E09", "U+56DB", "U+4E94", "U+516D",
                   "U+4E03", "U+516B", "U+4E5D", "U+5341", "U+767E", "U+5343",
                   "U+4E07"} \cup DigitChars
      units == {"U+7AE0", "U+8282", "U+5377", "U+7BC7", "U+56DE"}
      \* /^第\s*[numerals]+\s*[units]/i
      counted ==
        /\ Len(line) >= 1 /\ line[1] = "U+7B2C"
        /\ LET a == Skip(line, 2, SpaceChars)
               b == Skip(line, a, numerals)
               c == Skip(line, b, SpaceChars)
           IN  b > a /\ c <= Len(line) /\ line[c] \in units
      \* /^Chapter\s+\d+/i, /^Section\s+\d+/i
      wordAndNumber(word) ==
        /\ HasWordAt(line, 1, word)
        /\ LET a == Skip(line, Len(word) + 1, SpaceChars)
           IN  a > Len(word) + 1 /\ a <= Len(line) /\ IsDigit(line[a])
      \* /^\d+\.\s+[A-Z]/
      numbered ==
        LET a == Skip(line, 1, DigitChars)
        IN  /\ a > 1 /\ a <= Len(line) /\ line[a] = "."
            /\ LET b == Skip(line, a + 1, SpaceChars)
               IN  b > a + 1 /\ b <= Len(line) /\ IsUpper(line[b])
      \* /^[IVX]+\.\s+/
      roman ==
        LET a == Skip(line, 1, {"I", "V", "X"})
        IN  /\ a > 1 /\ a <= Len(line) /\ line[a] = "."
            /\ a + 1 <= Len(line) /\ line[a + 1] \in SpaceChars
      \* line.length < 50 && /^[A-Z]/.test(line) && !/[.,:;]$/.test(line)
      capitalised ==
        /\ Len(line) < PdfMaxCapitalised
        /\ Len(line) >= 1 /\ IsUpper(line[1])
        /\ line[Len(line)] \notin {".", ",", ":", ";"}
  IN  \/ counted
      \/ wordAndNumber(<<"c", "h", "a", "p", "t", "e", "r">>)
      \/ wordAndNumber(<<"s", "e", "c", "t", "i", "o", "n">>)
      \/ numbered
      \/ roman
      \/ capitalised

\* the headings parsePdf finds, from page number pageNum on, with the
\* position it computes for each
RECURSIVE PdfHeadings(_, _, _)
PdfHeadings(pageTexts, pageNum, overallPosition) ==
  IF pageNum > Len(pageTexts) THEN <<>>
  ELSE LET pageText == pageTexts[pageNum]
           lines == splitChar(pageText, NL)
           here == SelectSeq([j \in 1..Len(lines) |-> trim(lines[j])],
                     LAMBDA line : /\ Len(line) >= PdfMinHeading
                                   /\ Len(line) <= PdfMaxHeading
                                   /\ isPdfHeading(line))
       IN  [j \in 1..Len(here) |->
              [title |-> here[j], pageNum |-> pageNum,
               textPosition |-> overallPosition + indexOf(pageText, here[j], 0)]]
           \o PdfHeadings(pageTexts, pageNum + 1, overallPosition + Len(pageText) + 2)

\* `第 ${n} 章 (页面 ${from}-${to})`
PageGroupTitle(n, from, to) ==
  <<"U+7B2C", SP>> \o NumberToString(n) \o <<SP, "U+7AE0", SP, "(", "U+9875", "U+9762", SP>>
    \o NumberToString(from) \o <<"-">> \o NumberToString(to) \o <<")">>

\* BookParser.parsePdf on a document pdf.js could open
parsePdf(name, doc) ==
  LET numPages == Len(doc.pages)
      read == PdfPageLoop(doc.pages, [pages |-> <<>>, fullContent |-> <<>>])
      fullContent == read.fullContent
      potentialChapters == PdfHeadings(read.pages, 1, 0)
      byHeading ==
        IF Len(potentialChapters) >= 2
        THEN SelectSeq(
               [i \in 1..Len(potentialChapters) |->
                  LET current == potentialChapters[i]
                      last == i = Len(potentialChapters)
                  IN  [id |-> ChapterId(i),
                       title |-> current.title,
                       startPage |-> current.pageNum,
                       endPage |-> IF last THEN numPages
                                   ELSE potentialChapters[i + 1].pageNum - 1,
                       content |->
                         trim(substring(fullContent, current.textPosition,
                                IF last THEN Len(fullContent)
                                ELSE potentialChapters[i + 1].textPosition))]],
               LAMBDA chapter : Len(chapter.content) > 0)
        ELSE <<>>
      pagesPerChapter == Max(1, CeilDiv(numPages, PdfChapterCount))
      groups == CeilDiv(numPages, pagesPerChapter)
      byPages ==
        SelectSeq(
          [g \in 1..groups |->
             LET i == (g - 1) * pagesPerChapter
                 endPage == Min(i + pagesPerChapter, numPages)
             IN  [id |-> ChapterId(g),
                  title |-> PageGroupTitle(g, i + 1, endPage),
                  startPage |-> i + 1,
                  endPage |-> endPage,
                  content |-> join(SubSeq(read.pages, i + 1, endPage), <<NL, NL>>)]],
          LAMBDA chapter : Len(trim(chapter.content)) > 0)
  IN  [title |-> OrElse(doc.title, StripExtension(name)),
       content |-> fullContent,
       chapters |-> IF Len(byHeading) < 2 THEN byHeading \o byPages ELSE byHeading]

\* ------------------------------------------------------------------------
\* BookParser: EPUB
\* ------------------------------------------------------------------------
EpubMaxTitle == 100

\* html.replace(/<[^>]*>/g, with)
RECURSIVE ReplaceTags(_, _)
ReplaceTags(html, with) ==
  IF html = <<>> THEN <<>>
  ELSE LET closes == {k \in 2..Len(html) : html[k] = ">"}
       IN  IF html[1] = "<" /\ closes # {}
           THEN with \o ReplaceTags(
                  Drop(html, CHOOSE k \in closes : \A l \in closes : k <= l), with)
           ELSE <<html[1]>> \o ReplaceTags(Tail(html), with)

\* s.replace(/\s+/g, ' ')
RECURSIVE CollapseSpace(_)
CollapseSpace(s) ==
  IF s = <<>> THEN <<>>
  ELSE IF IsSpace(s[1])
       THEN <<SP>> \o CollapseSpace(Drop(s, Skip(s, 1, SpaceChars) - 1))
       ELSE <<s[1]>> \o CollapseSpace(Tail(s))

\* BookParser.extractTextFromHTML: the textContent of the markup in a
\* browser, for markup of tags and text without entities; tag removal on a
\* server
extractTextFromHTML(html, browser) ==
  IF browser THEN ReplaceTags(html, <<>>)
  ELSE trim(CollapseSpace(ReplaceTags(html, <<SP>>)))

\* content.match(/<name[^>]*>(.*?)<\/name>/i)[1] for the names given, the empty
\* string when there is no match
ElementText(html, names) ==
  LET opening(i) == {n \in names : HasWordAt(html, i, <<"<">> \o n)}
      tagEnd(i) == LET closes == {k \in i..Len(html) : html[k] = ">"}
                   IN  IF closes = {} THEN 0
                       ELSE CHOOSE k \in closes : \A l \in closes : k <= l
      ends(i) == {c \in (tagEnd(i) + 1)..Len(html) :
                    /\ \E n \in names : HasWordAt(html, c, <<"<", "/">> \o n \o <<">">>)
                    /\ \A k \in (tagEnd(i) + 1)..(c - 1) : html[k] \notin {NL, CR}}
      starts == {i \in 1..Len(html) :
                   opening(i) # {} /\ tagEnd(i) > 0 /\ ends(i) # {}}
  IN  IF starts = {} THEN <<>>
      ELSE LET i == CHOOSE k \in starts : \A l \in starts : k <= l
               c == CHOOSE k \in ends(i) : \A l \in ends(i) : k <= l
           IN  SubSeq(html, tagEnd(i) + 1, c - 1)

\* s.endsWith(t)
endsWith(s, t) == Len(t) <= Len(s) /\ SubSeq(s, Len(s) - Len(t) + 1, Len(s)) = t

\* the UTF-16 code units of the characters of a file name, in their order
CodeUnitOrder ==
  <<"-", ".", "/">> \o DecimalDigits \o UpperLetters \o <<"_">> \o LowerLetters
CodeUnit(c) == CHOOSE k \in 1..Len(CodeUnitOrder) : CodeUnitOrder[k] = c
\* a < b for strings, as Array.prototype.sort compares them by default
RECURSIVE StringLess(_, _)
StringLess(a, b) ==
  IF b = <<>> THEN FALSE
  ELSE IF a = <<>> THEN TRUE
  ELSE IF a[1] = b[1] THEN StringLess(Tail(a), Tail(b))
  ELSE CodeUnit(a[1]) < CodeUnit(b[1])

\* contentFiles.sort()
RECURSIVE SortNames(_)
SortNames(names) ==
  IF names = <<>> THEN <<>>
  ELSE LET sorted == SortNames(Take(names, Len(names) - 1))
           name == names[Len(names)]
           later == {k \in 1..Len(sorted) : StringLess(name, sorted[k])}
           at == IF later = {} THEN Len(sorted) + 1
                 ELSE CHOOSE k \in later : \A l \in later : k <= l
       IN  Take(sorted, at - 1) \o <<name>> \o Drop(sorted, at - 1)

\* `alt-chapter-${n}`
AltChapterId(n) ==
  <<"alt-chapter-1", "alt-chapter-2", "alt-chapter-3", "alt-chapter-4">>[n]

\* zip.files[filename], for a name the archive holds
ArchiveFile(archive, filename) ==
  archive[CHOOSE k \in 1..Len(archive) : archive[k].filename = filename]

\* the entries of the table of contents that name a chapter found by href:
\* tocItems[matchedKey], or else the navItem found in navigation.toc
TocEntries(toc, href) ==
  LET key(k) == splitChar(toc[k].href, "#")[1]
      keyed == {k \in 1..Len(toc) : toc[k].href # <<>> /\ includes(href, key(k))}
      matchedKey == key(CHOOSE k \in keyed : \A l \in keyed : k <= l)
      unkeyed == {k \in 1..Len(toc) : toc[k].href = <<>>}
  IN  IF keyed # {}
      THEN LET same == {k \in 1..Len(toc) : toc[k].href # <<>> /\ key(k) = matchedKey}
           IN  {CHOOSE k \in same : \A l \in same : k >= l}
      ELSE IF unkeyed # {} THEN {CHOOSE k \in unkeyed : \A l \in unkeyed : k <= l}
      ELSE {}

\* one turn of the spine loop: the chapter of spine item i, or no chapter
SpineChapter(doc, i, browser) ==
  LET spineItem == doc.spine[i]
      textContent == extractTextFromHTML(
                       ArchiveFile(doc.archive, spineItem.href).html, browser)
      entries == TocEntries(doc.toc, spineItem.href)
      firstLine == trim(splitChar(textContent, NL)[1])
      inferred == /\ entries = {}
                  /\ firstLine # <<>>
                  /\ Len(firstLine) < EpubMaxTitle
                  /\ ~includes(firstLine, <<".">>)
                  /\ ~includes(firstLine, <<"U+FF0C">>)
      content == IF inferred
                 THEN trim(substring(textContent, Len(firstLine), Len(textContent)))
                 ELSE textContent
  IN  IF ~spineItem.loads \/ trim(textContent) = <<>> \/ trim(content) = <<>>
      THEN <<>>
      ELSE <<[id |-> IF spineItem.idref # "" THEN spineItem.idref ELSE ChapterId(i),
              title |-> IF entries # {}
                        THEN doc.toc[CHOOSE k \in entries : TRUE].label
                        ELSE IF inferred THEN firstLine
                        ELSE <<"U+7B2C", SP>> \o NumberToString(i) \o <<SP, "U+7AE0">>,
              content |-> content,
              href |-> spineItem.href]>>

\* the spine loop of parseEpub
RECURSIVE SpinePass(_, _, _)
SpinePass(doc, i, browser) ==
  IF i > Len(doc.spine) THEN <<>>
  ELSE SpineChapter(doc, i, browser) \o SpinePass(doc, i + 1, browser)

\* the content files of the archive, sorted by name
ContentFiles(archive) ==
  SortNames(
    SelectSeq([k \in 1..Len(archive) |-> archive[k].filename],
      LAMBDA filename :
        \E ext \in {<<".", "h", "t", "m", "l">>, <<".", "x", "h", "t", "m", "l">>,
                    <<".", "h", "t", "m">>, <<".", "x", "m", "l">>} :
          endsWith(toLowerCase(filename), ext)))

\* one turn of the loop over the content files of the archive
ArchiveChapter(archive, contentFiles, i, browser) ==
  LET entry == ArchiveFile(archive, contentFiles[i])
      textContent == extractTextFromHTML(entry.html, browser)
      titleMatch == ElementText(entry.html, {<<"t", "i", "t", "l", "e">>})
      headingMatch == ElementText(entry.html, {<<"h", "1">>, <<"h", "2">>, <<"h", "3">>})
  IN  IF ~entry.reads \/ trim(textContent) = <<>>
      THEN <<>>
      ELSE <<[id |-> AltChapterId(i),
              title |-> IF titleMatch # <<>> THEN trim(titleMatch)
                        ELSE IF headingMatch # <<>>
                        THEN extractTextFromHTML(trim(headingMatch), browser)
                        ELSE <<"U+7AE0", "U+8282", SP>> \o NumberToString(i),
              content |-> textContent]>>

\* the pass over the archive, taken when the spine gave no chapter
RECURSIVE ArchivePass(_, _, _, _)
ArchivePass(archive, contentFiles, i, browser) ==
  IF i > Len(contentFiles) THEN <<>>
  ELSE ArchiveChapter(archive, contentFiles, i, browser)
         \o ArchivePass(archive, contentFiles, i + 1, browser)

\* fullContent += textContent + '\n\n', for every chapter pushed
RECURSIVE FullContentOf(_)
FullContentOf(chapters) ==
  IF chapters = <<>> THEN <<>>
  ELSE chapters[1].content \o <<NL, NL>> \o FullContentOf(Tail(chapters))

\* a final check that lets every book through
EpubHasContentAlways(chapters, fullContent) == TRUE

\* the final check of parseEpub
EpubHasContent(chapters, fullContent) ==
  ~(Len(chapters) = 0 \/ Len(trim(fullContent)) = 0)

\* what parseEpub returns or throws, given the chapters and the text
EpubResult(title, chapters, fullContent) ==
  IF EpubHasContent(chapters, fullContent)
  THEN [resolved |-> TRUE,
        book |-> [title |-> title, content |-> fullContent,
                  chapters |-> chapters]]
  ELSE [resolved |-> FALSE, book |-> Null]

\* the chapters of both passes, and the text of the archive pass if it found
\* any
AfterBothPasses(title, bySpine, byArchive) ==
  EpubResult(title, bySpine \o byArchive,
             IF Len(trim(FullContentOf(byArchive))) > 0
             THEN FullContentOf(byArchive)
             ELSE FullContentOf(bySpine))

\* the archive pass, taken when the spine pass left no chapter or no text
AfterSpinePass(title, doc, bySpine, browser) ==
  AfterBothPasses(title, bySpine,
    IF /\ Len(bySpine) = 0 \/ Len(trim(FullContentOf(bySpine))) = 0
       /\ doc.unzips
    THEN ArchivePass(doc.archive, ContentFiles(doc.archive), 1, browser)
    ELSE <<>>)

\* BookParser.parseEpub on a book epub.js could open: the book it resolves
\* with, or the rejection
parseEpub(name, doc, browser) ==
  AfterSpinePass(OrElse(doc.title, StripExtension(name)), doc,
                 SpinePass(doc, 1, browser), browser)

\* ------------------------------------------------------------------------
\* One import: a file parsed by BookParser and opened in a reading engine
\* ------------------------------------------------------------------------
PlainName == <<"a", ".", "t", "x", "t">>
HeadingsName ==
  <<"x", ".", "P", "a", "r", "t", SP, "1", ".", "a", ".", "b", ".", "c",
    ".", "P", "a", "r", "t", SP, "2", ".", "d", ".", "e", ".", "f", ".",
    "t", "x", "t">>

\* the text of CLAIMS' two short chapters: a heading, one body line, a blank
\* line, a heading, one body line
TwoShortChapters ==
  <<"C", "h", "a", "p", "t", "e", "r", SP, "1", NL, "x", SP, "y", NL, NL,
    "C", "h", "a", "p", "t", "e", "r", SP, "2", NL, "z", SP, "w">>
\* two chapters of three body lines each
TwoLongChapters ==
  <<"C", "h", "a", "p", "t", "e", "r", SP, "1", NL, "a", NL, "b", NL, "c",
    NL, "C", "h", "a", "p", "t", "e", "r", SP, "2", NL, "d", NL, "e", NL,
    "f">>

\* ------------------------------------------------------------------------
\* The chapter segmenter on its own: parseTextChapters applied to a text
\* ------------------------------------------------------------------------
MaxLines == 8
HeadingLine == <<"P", "a", "r", "t", SP, "1">>
BodyLine == <<"a">>

\* every text of up to MaxLines lines, each a heading or a line of body
LineTexts ==
  UNION {{join(f, <<NL>>) : f \in [1..n -> {HeadingLine, BodyLine}]} :
           n \in 0..MaxLines}

\* a text whose first heading is n lines in, after a first line of long
\* ideographs and lines of body, and is followed by three lines of body
PrefacedText(n, long) ==
  join(<<[i \in 1..long |-> CJK]>> \o [i \in 1..(n - 1) |-> BodyLine]
         \o <<HeadingLine, BodyLine, BodyLine, BodyLine>>,
       <<NL>>)

PrefacedTexts == {PrefacedText(n, long) : n \in {10, 11}, long \in {1, 101, 301}}

SegmentTexts == LineTexts \cup PrefacedTexts

\* BookParser.parseTextChapters(text), with the headings its first pass found
\* and the headings its filter kept
Segment ==
  /\ importPc = "text"
  /\ parsed' = [candidates |-> PotentialChapters(splitChar(file.data, NL)),
                accepted |-> FilterDense(PotentialChapters(splitChar(file.data, NL))),
                chapters |-> parseTextChapters(file.data)]
  /\ importPc' = "segmented"
  /\ UNCHANGED <<file, books, dialogVars, libraryVars, envVars, engineVars, contentVars, paginateVars, viewVars, storeVars>>

\* what the bytes of a text file decode to as UTF-8; a file with no more
\* than ten undecodable bytes is never decoded again with another encoding
DecodedTexts ==
  { <<>>, <<SP>>, <<ReplacementChar>>, TwoShortChapters, TwoLongChapters }

TextFiles ==
  [kind : {"txt"}, name : {PlainName, HeadingsName}, data : DecodedTexts]

\* BookParser.parseText(file)
ParseText ==
  /\ importPc = "picked"
  /\ file.kind = "txt"
  /\ parsed' = parseText(file.name, file.data)
  /\ importPc' = "parsed"
  /\ UNCHANGED <<file, books, dialogVars, libraryVars, envVars, engineVars, contentVars, paginateVars, viewVars, storeVars>>

\* new ReadingEngine(parsed)
OpenParsed ==
  /\ importPc = "parsed"
  /\ enginePc = "idle"
  /\ LET b == [title |-> parsed.title, content |-> parsed.content,
               chapters |-> parsed.chapters]
         laid == initializePages(b)
     IN  /\ book' = [b EXCEPT !.chapters = InitialChapters(b)]
         /\ pages' = laid.pages
         /\ chapterPages' = laid.chapterPages
         /\ pageToChapter' = laid.pageToChapter
  /\ enginePc' = "ready"
  /\ lastCall' = NoCall
  /\ importPc' = "opened"
  /\ UNCHANGED <<file, parsed, books, dialogVars, libraryVars, envVars, contentVars, paginateVars, viewVars, storeVars>>

\* a page pdf.js cannot load, and pages of one text item per line
FailingPage == [ok |-> FALSE, items |-> <<>>]
ScannedPage == [ok |-> TRUE, items |-> <<>>]
IntroPage ==
  [ok |-> TRUE, items |-> <<[str |-> <<"i", "n", "t", "r", "o", ".">>, x |-> 72, y |-> 700]>>]
MiddlePage ==
  [ok |-> TRUE, items |-> <<[str |-> <<"m", "i", "d", ".">>, x |-> 72, y |-> 700]>>]
FirstHeadingPage ==
  [ok |-> TRUE, items |-> <<[str |-> <<"A", "A">>, x |-> 72, y |-> 700],
       [str |-> <<"b", "o", "d", "y">>, x |-> 72, y |-> 680]>>]
LastHeadingPage ==
  [ok |-> TRUE, items |-> <<[str |-> <<"B", "B">>, x |-> 72, y |-> 700]>>]
TwoHeadingsPage ==
  [ok |-> TRUE, items |-> <<[str |-> <<"A", "A">>, x |-> 72, y |-> 700],
       [str |-> <<"B", "B">>, x |-> 72, y |-> 680]>>]

\* the documents of the PDF files: a scan without text, a text without
\* headings, one page with two headings, and four pages with two headings,
\* whose second page may fail
PdfDocuments ==
  { [readable |-> FALSE, title |-> <<>>, pages |-> <<>>],
    [readable |-> TRUE, title |-> <<>>, pages |-> <<ScannedPage>>],
    [readable |-> TRUE, title |-> <<"T">>, pages |-> <<IntroPage, MiddlePage>>],
    [readable |-> TRUE, title |-> <<>>, pages |-> <<TwoHeadingsPage>>],
    [readable |-> TRUE, title |-> <<>>,
     pages |-> <<IntroPage, MiddlePage, FirstHeadingPage, LastHeadingPage>>],
    [readable |-> TRUE, title |-> <<>>,
     pages |-> <<IntroPage, FailingPage, FirstHeadingPage, LastHeadingPage>>] }

PdfFiles == [kind : {"pdf"}, name : {<<"b", ".", "p", "d", "f">>}, data : PdfDocuments]

\* BookParser.parsePdf(file): rejects when pdf.js cannot open the document
ParsePdf ==
  /\ importPc = "picked"
  /\ file.kind = "pdf"
  /\ IF file.data.readable
     THEN /\ parsed' = parsePdf(file.name, file.data)
          /\ importPc' = "parsed"
     ELSE /\ parsed' = Null
          /\ importPc' = "rejected"
  /\ UNCHANGED <<file, books, dialogVars, libraryVars, envVars, engineVars, contentVars, paginateVars, viewVars, storeVars>>

\* the markup inside the root element of the content documents of the model
HeadedMarkup ==
  <<"<", "h", "1", ">", "O", "n", "e", "<", "/", "h", "1", ">", NL, "<", "p",
    ">", "T", "e", "x", "t", SP, "o", "n", "e", ".", "<", "/", "p", ">">>
PlainMarkup ==
  <<"<", "p", ">", "P", "l", "a", "i", "n", SP, "t", "e", "x", "t", ".", "<",
    "/", "p", ">">>
SecondMarkup ==
  <<"<", "t", "i", "t", "l", "e", ">", "T", "w", "o", "<", "/", "t", "i",
    "t", "l", "e", ">", "<", "p", ">", "T", "e", "x", "t", SP, "t", "w", "o",
    ".", "<", "/", "p", ">">>
BlankMarkup == <<"<", "p", ">", SP, "<", "/", "p", ">">>
TitleOnlyMarkup == <<"<", "p", ">", "T", "i", "t", "l", "e", "<", "/", "p", ">">>

NameA == <<"a", ".", "x", "h", "t", "m", "l">>
NameZ == <<"z", ".", "x", "h", "t", "m", "l">>

Entry(filename, html) == [filename |-> filename, html |-> html, reads |-> TRUE]
Item(idref, href, loads) == [idref |-> idref, href |-> href, loads |-> loads]
Opened(toc, spine, archive) ==
  [readable |-> TRUE, unzips |-> TRUE, title |-> <<"E">>, toc |-> toc,
   spine |-> spine, archive |-> archive]

\* the books of the EPUB files: one epub.js cannot open; two parts in the
\* order z, a of the spine, where either may fail to load; one blank part;
\* one part that is a title and nothing else
EpubDocuments ==
  { [readable |-> FALSE, unzips |-> FALSE, title |-> <<>>, toc |-> <<>>,
     spine |-> <<>>, archive |-> <<>>] }
  \cup
  { Opened(<<[href |-> NameZ \o <<"#", "s">>, label |-> <<"F">>]>>,
           <<Item("z", NameZ, first), Item("", NameA, second)>>,
           <<Entry(NameA, SecondMarkup), Entry(NameZ, HeadedMarkup)>>) :
      first \in BOOLEAN, second \in BOOLEAN }
  \cup
  { Opened(<<>>, <<Item("a", NameA, TRUE)>>, <<Entry(NameA, BlankMarkup)>>),
    Opened(<<>>, <<Item("a", NameA, TRUE)>>, <<Entry(NameA, TitleOnlyMarkup)>>),
    Opened(<<>>, <<Item("a", NameA, TRUE)>>, <<Entry(NameA, PlainMarkup)>>) }

EpubFiles ==
  [kind : {"epub"}, name : {<<"c", ".", "e", "p", "u", "b">>}, data : EpubDocuments]

\* BookParser.parseEpub(file): rejects when epub.js cannot open the book, and
\* when no content could be extracted
ParseEpub ==
  /\ importPc = "picked"
  /\ file.kind = "epub"
  /\ \E result \in {IF file.data.readable
                      THEN parseEpub(file.name, file.data, hasWindow)
                      ELSE [resolved |-> FALSE, book |-> Null]} :
       /\ parsed' = result.book
       /\ importPc' = IF result.resolved THEN "parsed" ELSE "rejected"
  /\ UNCHANGED <<file, books, dialogVars, libraryVars, envVars, engineVars, contentVars, paginateVars, viewVars, storeVars>>

\* ------------------------------------------------------------------------
\* BookImport.importBook after the parser, and useBookStore.addBook
\* ------------------------------------------------------------------------
maxContentLength == 1000000
maxChapterLength == 500000

\* `无法读取"${title}"的内容，请尝试重新导入。`
CannotReadContent(title) ==
  <<CJK, CJK, CJK, CJK, "\"">> \o title
    \o <<"\"", CJK, CJK, CJK, "U+FF0C", CJK, CJK, CJK, CJK, CJK, CJK, CJK, CJKStop>>

\* the book importBook goes on with. For a text file whose parsed content or
\* first chapter is blank it is made of file.text(), and the import fails if
\* that is blank too; a book of blank content fails the final validation.
ValidatedBook ==
  LET blankText == \/ trim(parsed.content) = <<>>
                   \/ Len(parsed.chapters) = 0
                   \/ trim(parsed.chapters[1].content) = <<>>
      backup == [title |-> StripExtension(file.name),
                 content |-> file.data,
                 chapters |-> <<[id |-> "chapter-1", title |-> WholeText,
                                 content |-> file.data]>>]
  IN  IF file.kind = "txt" /\ blankText
      THEN IF trim(file.data) = <<>> THEN Null ELSE backup
      ELSE IF trim(parsed.content) = <<>> THEN Null ELSE parsed

\* importBook, from the parser's result to setBook(parsedBook) of the engine
\* store, which paginates the content
ImportSetBook ==
  /\ importPc = "parsed"
  /\ IF ValidatedBook = Null
     THEN /\ importPc' = "failed"
          /\ UNCHANGED <<parsed, storeBook, storePage, storeChapter, storePages,
                         storeLastRead>>
     ELSE /\ importPc' = "shown"
          /\ parsed' = ValidatedBook
          /\ storeBook' = ValidatedBook
          /\ storePage' = 1
          /\ storeChapter' = 0
          /\ storePages' =
               splitIntoPages(ValidatedBook.content,
                              DefaultOptions(storeFontSize, storeLineHeight),
                              hasWindow, hasContext)
          /\ storeLastRead' = now
  /\ UNCHANGED <<storeFontSize, storeLineHeight, storeTheme, storeTimeSpent,
                 now, storeCall>>
  /\ UNCHANGED <<file, books, dialogVars, libraryVars, envVars, engineVars, contentVars, paginateVars, viewVars>>

\* useBookStore.addBook: the content and the chapters of the book it stores
addBook(bookData) ==
  LET content ==
        IF \/ trim(bookData.content) = <<>>
           \/ bookData.content = NoContentAvailable
        THEN CannotReadContent(bookData.title)
        ELSE substring(bookData.content, 0, maxContentLength)
      whole == <<[id |-> "chapter-1", title |-> WholeText,
                  content |-> substring(content, 0, maxChapterLength)]>>
      validChapters ==
        \E i \in 1..Len(bookData.chapters) :
          trim(bookData.chapters[i].content) # <<>>
  IN  [title |-> bookData.title,
       content |-> content,
       chapters |->
         IF Len(bookData.chapters) = 0
         THEN <<[id |-> "chapter-1", title |-> WholeText, content |-> content]>>
         ELSE IF ~validChapters THEN whole
         ELSE [i \in 1..Len(bookData.chapters) |->
                 [bookData.chapters[i] EXCEPT
                    !.content = substring(@, 0, maxChapterLength)]]]

\* importBook, addBook(bookData): the library gets the book, cut to the caps
ImportAddBook ==
  /\ importPc = "shown"
  /\ books' = Append(books, addBook(parsed))
  /\ importPc' = "added"
  /\ UNCHANGED <<file, parsed, dialogVars, libraryVars, envVars, engineVars, contentVars, paginateVars, viewVars, storeVars>>

\* ------------------------------------------------------------------------
\* BookImport, the drag-and-drop dialog: onDrop and processFiles
\* ------------------------------------------------------------------------
MaxDrops == 2

\* what becomes of a dropped file: its parser resolves and addBook stores the
\* book, its parser rejects, or addBook throws
Fates == {"stored", "parseFails", "storeFails"}

\* the files of one drop, each by what becomes of it: no file, one file, or
\* two files of which one at least is stored
DroppedFiles ==
  {<<>>} \cup {<<f>> : f \in Fates}
    \cup {<<f, "stored">> : f \in Fates} \cup {<<"stored", f>> : f \in Fates}

\* setUploads(prev => prev.map(u => u.id === id ? {...u, ...change} : u))
MapUpload(list, id, status, progress) ==
  [k \in 1..Len(list) |->
     IF list[k].id = id
     THEN [list[k] EXCEPT !.status = status, !.progress = progress]
     ELSE list[k]]

\* the head of the for loop of processFiles: the upload it has reached is
\* marked as processing and its parser is called; past the last upload the
\* loop has ended
EnterLoop(list, batch) ==
  IF batch.at <= Len(batch.files)
  THEN MapUpload(list, batch.files[batch.at], "processing", 20)
  ELSE list

\* an error thrown for one upload leaves the for loop of processFiles
AfterThrow(batch) == [batch EXCEPT !.at = Len(batch.files) + 1]

\* the catch block of processFiles lies inside the for loop: after an
\* upload that failed the loop goes on with the next one
AfterCatch(batch) == [batch EXCEPT !.at = @ + 1]

\* onDrop(acceptedFiles): the uploads are listed as pending, and
\* processFiles runs for them up to its first await
OnDrop(files) ==
  /\ Len(batches) < MaxDrops
  /\ batches' = Append(batches,
                  [files |-> [k \in 1..Len(files) |-> Len(uploads) + k],
                   at |-> 1])
  /\ uploads' = EnterLoop(uploads \o [k \in 1..Len(files) |->
                                        [id |-> Len(uploads) + k,
                                         fate |-> files[k],
                                         status |-> "pending",
                                         progress |-> 0]],
                          batches'[Len(batches')])
  /\ isProcessing' = (Len(files) > 0)
  /\ UNCHANGED <<books, importPc, file, parsed, libraryVars, envVars, engineVars,
                 contentVars, paginateVars, viewVars, storeVars>>

\* processFiles of drop b goes on after its await: the parser of the upload
\* it has reached has settled.  The book is stored and the upload completed,
\* or the upload is marked as failed; then the loop enters its next turn, or
\* ends with setIsProcessing(false)
Resume(b) ==
  /\ b \in 1..Len(batches)
  /\ batches[b].at <= Len(batches[b].files)
  /\ \E id \in {batches[b].files[batches[b].at]} :
       IF uploads[id].fate = "stored"
       THEN /\ books' = Append(books, [upload |-> id])
            /\ batches' = [batches EXCEPT ![b].at = @ + 1]
            /\ uploads' = EnterLoop(MapUpload(uploads, id, "completed", 100),
                                    batches'[b])
       ELSE /\ books' = books
            /\ batches' = [batches EXCEPT ![b] = AfterCatch(@)]
            /\ uploads' = EnterLoop(MapUpload(uploads, id, "error",
                                              uploads[id].progress),
                                    batches'[b])
  /\ isProcessing' = IF batches'[b].at > Len(batches'[b].files) THEN FALSE
                     ELSE isProcessing
  /\ UNCHANGED <<importPc, file, parsed, libraryVars, envVars, engineVars,
                 contentVars, paginateVars, viewVars, storeVars>>

DialogNext ==
  \/ \E files \in DroppedFiles : OnDrop(files)
  \/ \E b \in 1..MaxDrops : Resume(b)

\* ------------------------------------------------------------------------
\* useBookStore, the library: books, highlights, notes and currentBook
\* ------------------------------------------------------------------------
\* how many ids the store makes in a run
MaxIds == 4

\* the ids a caller may pass, those never made included
Ids == 1..MaxIds

\* `${kind}-${Date.now()}-${random}`: an id no earlier one equals
FreshId == Len(issued) + 1

\* the ids of the books the library has ever held
BookIdsIssued == {i \in 1..Len(issued) : issued[i] = "book"}

\* what is imported into the library
LibraryBookData == [title |-> <<"B">>, content |-> <<"a">>, chapters |-> <<>>]

\* removeBook(bookId): the four fields it sets
removeBook(state, bookId) ==
  LET OtherBook(b) == b.id # bookId
      OfOtherBook(x) == x.bookId # bookId
  IN  [books |-> SelectSeq(state.books, OtherBook),
       highlights |-> SelectSeq(state.highlights, OfOtherBook),
       notes |-> SelectSeq(state.notes, OfOtherBook),
       currentBook |->
         IF state.currentBook # Null /\ state.currentBook.id = bookId
         THEN Null ELSE state.currentBook]

\* the fields of the store removeBook reads
LibraryState ==
  [books |-> books, highlights |-> highlights, notes |-> notes,
   currentBook |-> libraryBook]

\* addBook(bookData): the book gets a fresh id and joins the library
LibraryAddBook ==
  /\ Len(issued) < MaxIds
  /\ books' = Append(books, [id |-> FreshId] @@ addBook(LibraryBookData))
  /\ issued' = Append(issued, "book")
  /\ UNCHANGED <<highlights, notes, libraryBook>>
  /\ UNCHANGED <<importPc, file, parsed, dialogVars, envVars, engineVars,
                 contentVars, paginateVars, viewVars, storeVars>>

\* removeBook(bookId), for any id
RemoveBook(bookId) ==
  /\ \E next \in {removeBook(LibraryState, bookId)} :
       /\ books' = next.books
       /\ highlights' = next.highlights
       /\ notes' = next.notes
       /\ libraryBook' = next.currentBook
  /\ UNCHANGED issued
  /\ UNCHANGED <<importPc, file, parsed, dialogVars, envVars, engineVars,
                 contentVars, paginateVars, viewVars, storeVars>>

\* setCurrentBook(book), with a book of the library or null
SetCurrentBook(b) ==
  /\ libraryBook' = b
  /\ UNCHANGED <<books, highlights, notes, issued>>
  /\ UNCHANGED <<importPc, file, parsed, dialogVars, envVars, engineVars,
                 contentVars, paginateVars, viewVars, storeVars>>

\* addHighlight({bookId, ...}): the reading view passes the id of the book it
\* was opened with, which the library may have removed since
AddHighlight(bookId) ==
  /\ Len(issued) < MaxIds
  /\ highlights' = Append(highlights, [id |-> FreshId, bookId |-> bookId])
  /\ issued' = Append(issued, "highlight")
  /\ UNCHANGED <<books, notes, libraryBook>>
  /\ UNCHANGED <<importPc, file, parsed, dialogVars, envVars, engineVars,
                 contentVars, paginateVars, viewVars, storeVars>>

\* addNote({bookId, ...}), from the same view
AddNote(bookId) ==
  /\ Len(issued) < MaxIds
  /\ notes' = Append(notes, [id |-> FreshId, bookId |-> bookId])
  /\ issued' = Append(issued, "note")
  /\ UNCHANGED <<books, highlights, libraryBook>>
  /\ UNCHANGED <<importPc, file, parsed, dialogVars, envVars, engineVars,
                 contentVars, paginateVars, viewVars, storeVars>>

LibraryNext ==
  \/ LibraryAddBook
  \/ \E bookId \in Ids : RemoveBook(bookId)
  \/ \E i \in 1..Len(books) : SetCurrentBook(books[i])
  \/ SetCurrentBook(Null)
  \/ \E bookId \in BookIdsIssued : AddHighlight(bookId)
  \/ \E bookId \in BookIdsIssued : AddNote(bookId)

\* ------------------------------------------------------------------------
\* Specifications
\* ------------------------------------------------------------------------
\* the parts of the state a specification does not exercise
EngineIdle ==
  /\ enginePc = "idle"
  /\ book = [title |-> <<>>, content |-> <<>>, chapters |-> <<>>]
  /\ pages = <<>>
  /\ chapterPages = EmptyMap
  /\ pageToChapter = EmptyMap
  /\ lastCall = NoCall
ContentIdle ==
  /\ contentPc = "idle"
  /\ contentBook = [title |-> <<>>, content |-> <<>>, chapters |-> <<>>]
  /\ contentPages = <<>>
  /\ contentFontSize = DefaultFontSize
  /\ contentLineHeight = DefaultLineHeight
  /\ contentCall = NoCall
PaginateIdle ==
  /\ inputText = <<>>
  /\ inputOptions = DefaultOptions(DefaultFontSize, DefaultLineHeight)
  /\ strategy = "idle"
  /\ outcome = [pages |-> <<>>, hung |-> FALSE]
ViewIdle ==
  /\ viewPc = "idle"
  /\ currentPage = 0
  /\ pageInfo = Null
  /\ settings = [fontSize |-> DefaultFontSize, lineHeight |-> DefaultLineHeight,
                 pageWidth |-> DefaultPageWidth]
  /\ innerHeight = DefaultPageHeight + WindowChrome
  /\ repaginateTimeout = NoTimer
  /\ lastReflow = NoReflow
ImportIdle ==
  /\ importPc = "idle"
  /\ file = [kind |-> "none"]
  /\ parsed = [null |-> TRUE]
  /\ books = <<>>
DialogIdle ==
  /\ uploads = <<>>
  /\ batches = <<>>
  /\ isProcessing = FALSE
LibraryIdle ==
  /\ highlights = <<>>
  /\ notes = <<>>
  /\ libraryBook = Null
  /\ issued = <<>>
StoreIdle ==
  /\ storeBook = Null
  /\ storePage = 1
  /\ storeChapter = 0
  /\ storePages = <<>>
  /\ storeFontSize = DefaultFontSize
  /\ storeLineHeight = DefaultLineHeight
  /\ storeTheme = "light"
  /\ storeTimeSpent = 0
  /\ storeLastRead = 0
  /\ now = 1
  /\ storeCall = NoUpdate

\* the chapter-based reading engine
Init ==
  /\ EngineInit
  /\ hasContext = TRUE
  /\ ContentIdle /\ PaginateIdle /\ ViewIdle /\ StoreIdle /\ ImportIdle
  /\ DialogIdle /\ LibraryIdle
Next == EngineNext
Spec == Init /\ [][Next]_vars

\* the content-based reading engine
InitContent ==
  /\ ContentInit
  /\ EngineIdle /\ PaginateIdle /\ ViewIdle /\ StoreIdle /\ ImportIdle
  /\ DialogIdle /\ LibraryIdle
SpecContent == InitContent /\ [][ContentNext]_vars

\* the pagination functions on their own
InitPaginate ==
  /\ PaginateInit
  /\ hasWindow = TRUE
  /\ hasContext = TRUE
  /\ EngineIdle /\ ContentIdle /\ ViewIdle /\ StoreIdle /\ ImportIdle
  /\ DialogIdle /\ LibraryIdle
SpecPaginate == InitPaginate /\ [][PaginateNext]_vars

\* the reading view over its engine
InitView ==
  /\ ViewInit
  /\ EngineIdle /\ PaginateIdle /\ StoreIdle /\ ImportIdle
  /\ DialogIdle /\ LibraryIdle
SpecView == InitView /\ [][ViewNext]_vars

\* the engine store
InitStore ==
  /\ StoreInit
  /\ EngineIdle /\ ContentIdle /\ PaginateIdle /\ ViewIdle /\ ImportIdle
  /\ DialogIdle /\ LibraryIdle
SpecStore == InitStore /\ [][StoreNext]_vars

\* either reading engine, constructed for one book
InitEngines == Init \/ InitContent
EnginesNext == EngineNext \/ ContentNext
SpecEngines == InitEngines /\ [][EnginesNext]_vars

\* one import, then the engine it opened
InitImport ==
  /\ importPc = "picked"
  /\ (file \in TextFiles \/ file \in PdfFiles \/ file \in EpubFiles)
  /\ parsed = Null
  /\ books = <<>>
  /\ hasWindow \in BOOLEAN
  /\ hasContext = TRUE
  /\ EngineIdle /\ ContentIdle /\ PaginateIdle /\ ViewIdle /\ StoreIdle
  /\ DialogIdle /\ LibraryIdle
ImportNext ==
  \/ ParseText
  \/ ParsePdf
  \/ ParseEpub
  \/ OpenParsed
  \/ ImportSetBook
  \/ ImportAddBook
  \/ EngineNext
SpecImport == InitImport /\ [][ImportNext]_vars

\* the chapter segmenter applied to one text
InitSegment ==
  /\ importPc = "text"
  /\ file \in [kind : {"text"}, data : SegmentTexts]
  /\ parsed = Null
  /\ books = <<>>
  /\ hasWindow = TRUE
  /\ hasContext = TRUE
  /\ EngineIdle /\ ContentIdle /\ PaginateIdle /\ ViewIdle /\ StoreIdle
  /\ DialogIdle /\ LibraryIdle
SpecSegment == InitSegment /\ [][Segment]_vars

\* the drag-and-drop dialog; every parser call settles, so that every call
\* of processFiles that can go on does go on
InitDialog ==
  /\ DialogIdle /\ LibraryIdle
  /\ importPc = "idle"
  /\ file = [kind |-> "none"]
  /\ parsed = Null
  /\ books = <<>>
  /\ hasWindow = TRUE
  /\ hasContext = TRUE
  /\ EngineIdle /\ ContentIdle /\ PaginateIdle /\ ViewIdle /\ StoreIdle
SpecDialog ==
  /\ InitDialog
  /\ [][DialogNext]_vars
  /\ \A b \in 1..MaxDrops : WF_vars(Resume(b))

\* the library store on its own
InitLibrary ==
  /\ DialogIdle /\ LibraryIdle
  /\ importPc = "idle"
  /\ file = [kind |-> "none"]
  /\ parsed = Null
  /\ books = <<>>
  /\ hasWindow = TRUE
  /\ hasContext = TRUE
  /\ EngineIdle /\ ContentIdle /\ PaginateIdle /\ ViewIdle /\ StoreIdle
SpecLibrary == InitLibrary /\ [][LibraryNext]_vars
\* ------------------------------------------------------------------------
\* Properties
\* ------------------------------------------------------------------------
\* the ids of the chapters the chapter-based engine holds
ChapterIdsOfBook == {book.chapters[i].id : i \in 1..Len(book.chapters)}

\* the global pages the page-to-chapter map assigns to a chapter id
MappedPages(chapterId) ==
  {g \in 0..(Len(pages) - 1) : MapGet(pageToChapter, g) = chapterId}

\* the content holds q, ignoring case, in the Len(q) characters at offset off
ContainsAt(content, q, off) ==
  /\ off >= 0
  /\ off + Len(q) <= Len(content)
  /\ toLowerCase(SubSeq(content, off + 1, off + Len(q))) = toLowerCase(q)

\* the offsets of a page content at which q occurs, ignoring case
OccurrencesOf(content, q) ==
  {off \in 0..Len(content) : ContainsAt(content, q, off)}

\* C1: after construction and after any repaginate calls, the chapters that
\* getChapters returns lie back to back in 0-based global pages: the first
\* starts at page 0 and every later one starts right after the one before it.
C1_ChaptersBackToBack ==
  enginePc = "ready" =>
    LET listed == getChapters
    IN  /\ Len(listed) > 0 => listed[1].startPage = 0
        /\ \A i \in 2..Len(listed) :
             listed[i].startPage = listed[i - 1].endPage + 1

\* two chapters of one id, as parsePdf can return them, both listed from
\* page 0
C1_SharedIdOverlap ==
  /\ enginePc = "ready"
  /\ Len(book.chapters) = 2
  /\ book.chapters[1].id = book.chapters[2].id
  /\ Len(pages) >= 2
  /\ getChapters[1].startPage = 0
  /\ getChapters[2].startPage = 0

\* C2: for every chapter of getChapters, endPage - startPage + 1 is the number
\* of pages stored for the chapter and the number of global pages the
\* page-to-chapter map assigns to the chapter's id.
C2_ChapterPageCounts ==
  enginePc = "ready" =>
    \A i \in 1..Len(book.chapters) :
      LET listed == getChapters[i]
          stored == IF listed.id \in DOMAIN chapterPages
                    THEN Len(chapterPages[listed.id]) ELSE 0
      IN  /\ listed.endPage - listed.startPage + 1 = stored
          /\ listed.endPage - listed.startPage + 1
               = Cardinality(MappedPages(listed.id))

\* a repaginate that stores no page for the only chapter, which getChapters
\* still lists with one page
C2_EmptyChapterListedWithOnePage ==
  /\ enginePc = "ready"
  /\ lastCall.op = "repaginate"
  /\ Len(book.chapters) = 1
  /\ chapterPages[book.chapters[1].id] = <<>>
  /\ getChapters[1].endPage - getChapters[1].startPage + 1 = 1

\* C3: a reading engine has at least one page after construction and after
\* every repaginate or updateContent call, whatever book it was handed.
C3_AtLeastOnePage ==
  /\ enginePc = "ready" => getTotalPages >= 1
  /\ contentPc = "ready" => Len(contentPages) >= 1

\* a content-based engine constructed without a window for a book of empty
\* content: no page
C3_EmptyContentNoPage ==
  /\ contentPc = "ready"
  /\ ~hasWindow
  /\ contentBook.content = <<>>
  /\ contentCall = NoCall
  /\ Len(contentPages) = 0

\* C4: for every chapter text and every typography, the measured and the
\* heuristic pagination that return, return at least one page.
C4_NoEmptyPagination ==
  (strategy \in {"heuristic", "measured", "engineMeasured", "engineFallback"}
     /\ ~outcome.hung)
    => Len(outcome.pages) >= 1

\* the heuristic strategy applied to the empty text returned no page
C4_HeuristicEmptyText ==
  /\ strategy = "heuristic"
  /\ inputText = <<>>
  /\ outcome.pages = <<>>

\* C5: for either pagination strategy and for the word split of the
\* constructor, the pages of a chapter put together in order are the
\* chapter's content, character for character.
C5_PagesReproduceContent ==
  (strategy \in {"heuristic", "measured", "engineMeasured", "engineFallback",
                 "wordSplit"}
     /\ ~outcome.hung)
    => Concat(outcome.pages) = inputText

\* the measured strategy applied to two words two spaces apart: the pages
\* keep the words and lose a space
C5_MeasuredDropsSpace ==
  /\ strategy = "measured"
  /\ inputText = <<"a", SP, SP, "a">>
  /\ NonSpace(Concat(outcome.pages)) = <<"a", "a">>
  /\ Len(Concat(outcome.pages)) < Len(inputText)

\* C6: after a typography change that re-paginates, in the reading view or in
\* the engine store, the reader's page keeps its relative position within one
\* page: |newPage / newTotal - oldPage / oldTotal| <= 1 / newTotal, for every
\* old page in range and all totals of at least 1.
C6_ReflowKeepsProgress ==
  /\ (/\ lastReflow.fired
      /\ lastReflow.oldTotal >= 1
      /\ lastReflow.newTotal >= 1
      /\ lastReflow.oldPage >= 0
      /\ lastReflow.oldPage < lastReflow.oldTotal)
       => LET d == lastReflow.newPage * lastReflow.oldTotal
                     - lastReflow.oldPage * lastReflow.newTotal
          IN  d <= lastReflow.oldTotal /\ 0 - d <= lastReflow.oldTotal
  /\ (/\ storeCall.updated
      /\ storeCall.oldTotal >= 1
      /\ storeCall.newTotal >= 1
      /\ storeCall.oldPage >= 1
      /\ storeCall.oldPage <= storeCall.oldTotal)
       => LET d == storeCall.newPage * storeCall.oldTotal
                     - storeCall.oldPage * storeCall.newTotal
          IN  d <= storeCall.oldTotal /\ 0 - d <= storeCall.oldTotal

\* a reflow of the view from 3 pages to 5 with the reader on the last page:
\* the page index stays 2
C6_ViewKeepsPageIndex ==
  /\ lastReflow.fired
  /\ lastReflow.oldTotal = 3
  /\ lastReflow.oldPage = 2
  /\ lastReflow.newTotal = 5
  /\ lastReflow.newPage = 2
  /\ currentPage = 2

\* C7: getPageInfo(g) for a page out of range is getPageInfo of the nearest
\* page in range, getPageInfo(0) below and getPageInfo(totalPages - 1) above,
\* and names a real chapter and real page content, never null and never the
\* 'unknown' placeholder; this holds for both reading engines.
C7_PageInfoClamps ==
  /\ (/\ lastCall.op = "getPageInfo"
      /\ (lastCall.arg < 0 \/ lastCall.arg >= Len(pages)))
       => /\ lastCall.result # Null
          /\ lastCall.result =
               getPageInfo(IF lastCall.arg < 0 THEN 0 ELSE Len(pages) - 1)
          /\ lastCall.result.chapterId \in ChapterIdsOfBook
  /\ (/\ contentCall.op = "getPageInfo"
      /\ (contentCall.arg < 0 \/ contentCall.arg >= Len(contentPages)))
       => /\ contentCall.result =
               contentGetPageInfo(IF contentCall.arg < 0 THEN 0
                                  ELSE Len(contentPages) - 1)
          /\ contentCall.result.chapterId # "unknown"
          /\ contentCall.result.content # NoContentAvailable

\* getPageInfo(totalPages) of a content-based engine that has pages: the
\* 'unknown' record
C7_UnknownPastTheEnd ==
  /\ contentCall.op = "getPageInfo"
  /\ Len(contentPages) >= 1
  /\ contentCall.arg = Len(contentPages)
  /\ contentCall.result.chapterId = "unknown"
  /\ contentCall.result.content = NoContentAvailable
  /\ contentCall.result.globalPage = Len(contentPages)

\* C8: every hit of searchText(q) names a page in range whose content holds q,
\* ignoring case, exactly at the hit's matchIndex, and carries the chapter id
\* and the page in chapter that getPageInfo reports for that page.
C8_SearchHitsPointAtMatches ==
  (lastCall.op = "searchText" /\ enginePc = "ready") =>
    \A i \in 1..Len(lastCall.result) :
      LET hit == lastCall.result[i]
      IN  /\ hit.globalPage >= 0
          /\ hit.globalPage < getTotalPages
          /\ ContainsAt(pages[hit.globalPage + 1], lastCall.arg, hit.matchIndex)
          /\ getPageInfo(hit.globalPage) # Null
          /\ hit.chapterId = getPageInfo(hit.globalPage).chapterId
          /\ hit.pageInChapter = getPageInfo(hit.globalPage).pageInChapter

\* a hit for "b" on a page where a capital I with a dot above comes before
\* the b: its matchIndex is the offset in the lowered page, one past the b
C8_OffsetInLoweredPage ==
  /\ lastCall.op = "searchText"
  /\ enginePc = "ready"
  /\ lastCall.arg = <<"b">>
  /\ \E i \in 1..Len(lastCall.result) :
       LET hit == lastCall.result[i]
           content == pages[hit.globalPage + 1]
       IN  /\ hit.matchIndex >= 1
           /\ content[hit.matchIndex] = "b"
           /\ ~ContainsAt(content, lastCall.arg, hit.matchIndex)

\* C9: searchText(q) for a query of at least one character returns one hit for
\* each occurrence: on every page the number of hits is the number of offsets
\* at which q occurs, ignoring case,
\* occurrences that overlap included; this holds for both reading engines.
C9_OneHitPerOccurrence ==
  /\ (lastCall.op = "searchText" /\ enginePc = "ready"
        /\ lastCall.arg # <<>>) =>
       \A g \in 0..(Len(pages) - 1) :
         Cardinality({i \in 1..Len(lastCall.result) :
                        lastCall.result[i].globalPage = g})
           = Cardinality(OccurrencesOf(pages[g + 1], lastCall.arg))
  /\ (contentCall.op = "searchText" /\ contentCall.arg # <<>>) =>
       \A g \in 0..(Len(contentPages) - 1) :
         Cardinality({i \in 1..Len(contentCall.result) :
                        contentCall.result[i].page = g})
           = Cardinality(OccurrencesOf(contentPages[g + 1], contentCall.arg))

\* a search for "aa" on a page that holds "aaa": two occurrences, one hit
C9_OverlapCountedOnce ==
  /\ lastCall.op = "searchText"
  /\ enginePc = "ready"
  /\ lastCall.arg = <<"a", "a">>
  /\ \E g \in 0..(Len(pages) - 1) :
       /\ Cardinality(OccurrencesOf(pages[g + 1], lastCall.arg)) = 2
       /\ Cardinality({i \in 1..Len(lastCall.result) :
                         lastCall.result[i].globalPage = g}) = 1

\* C10: for every integer page, in range or not, getPosition reports the
\* chapter id, the page in chapter and the global page that getPageInfo
\* reports for it.
C10_PositionAgreesWithPageInfo ==
  lastCall.op = "getPosition" =>
    LET info == getPageInfo(lastCall.arg)
    IN  /\ info # Null
        /\ lastCall.result.chapterId = info.chapterId
        /\ lastCall.result.pageInChapter = info.pageInChapter
        /\ lastCall.result.globalPage = info.globalPage

\* getPosition(totalPages) of an engine that has pages: the page is not
\* clamped as getPageInfo clamps it
C10_PositionPastTheEnd ==
  /\ lastCall.op = "getPosition"
  /\ Len(pages) >= 1
  /\ lastCall.arg = Len(pages)
  /\ lastCall.result.globalPage = Len(pages)
  /\ getPageInfo(lastCall.arg) # Null
  /\ getPageInfo(lastCall.arg).globalPage = Len(pages) - 1

\* C16: after construction and after any repaginate calls, the global pages
\* that have a chapter assigned are exactly 0 .. getTotalPages - 1, and each
\* is assigned the id of a chapter of the book's chapter list.
C16_EveryPageMapped ==
  enginePc = "ready" =>
    /\ DOMAIN pageToChapter = 0..(getTotalPages - 1)
    /\ \A g \in DOMAIN pageToChapter : pageToChapter[g] \in ChapterIdsOfBook

\* a repaginate of a book of two chapters of different ids that left pages of
\* both
C16_TwoChaptersRemapped ==
  /\ enginePc = "ready"
  /\ lastCall.op = "repaginate"
  /\ Len(pages) >= 2
  /\ {pageToChapter[g] : g \in DOMAIN pageToChapter} = {"chapter-1", "chapter-2"}

C18_ReflowsAreDebounced ==
  /\ [](Cardinality(repaginateTimeout.timers) <= 1)
  /\ [][Cardinality(repaginateTimeout'.timers)
           < Cardinality(repaginateTimeout.timers) =>
          \E timer \in repaginateTimeout.timers :
            /\ repaginateTimeout.timers = {timer}
            /\ repaginateTimeout'.timers = {}
            /\ timer.due
            /\ timer.id = repaginateTimeout.current
            /\ timer.settings = settings
            /\ contentCall' = [op |-> "repaginate",
                               arg |-> ReflowOptions(settings, innerHeight),
                               result |-> Null]]_vars

\* a reflow has run, the settings were changed again after it, and the one
\* timer pending is the one of that change, still waiting
C18_SecondChangePending ==
  /\ lastReflow.fired
  /\ \E timer \in repaginateTimeout.timers :
       /\ repaginateTimeout.timers = {timer}
       /\ ~timer.due
       /\ timer.settings = settings
       /\ contentCall.op = "repaginate"
       /\ contentCall.arg.pageWidth # settings.pageWidth

\* C20: in the engine store, after any calls of setBook, setPage, setChapter,
\* nextPage, prevPage, updateReadingPreference and resetEngine, whenever a
\* book is loaded currentPage is an integer that addresses an existing page:
\* 1 <= currentPage <= pages.length.
C20_CurrentPageAddressesAPage ==
  storeBook # Null =>
    /\ storePage # StoreNaN
    /\ storePage >= 1
    /\ storePage <= Len(storePages)

\* a book of blank content loaded where there is no window: no page, and after
\* a change of font size currentPage is NaN
C20_NoPageThenNaN ==
  /\ storeBook # Null
  /\ ~hasWindow
  /\ storePages = <<>>
  /\ storeCall.updated
  /\ storeCall.oldPage = 1
  /\ storeCall.oldTotal = 0
  /\ storePage = StoreNaN

\* C12: a zero-byte text file, whatever its name, opens as a document of
\* exactly one chapter and exactly one page, and the content of that page is
\* a placeholder that is not empty.
C12_ZeroByteFileIsOnePage ==
  (importPc = "opened" /\ file.kind = "txt" /\ file.data = <<>>
     /\ lastCall = NoCall)
    => /\ Len(parsed.chapters) = 1
       /\ Len(book.chapters) = 1
       /\ Len(pages) = 1
       /\ trim(pages[1]) # <<>>

\* a zero-byte file whose name holds two headings: the placeholder, which
\* quotes the name, is split into two chapters and two pages
C12_NameSplitIntoChapters ==
  /\ importPc = "opened"
  /\ file.kind = "txt"
  /\ file.data = <<>>
  /\ file.name = HeadingsName
  /\ lastCall = NoCall
  /\ Len(book.chapters) = 2
  /\ Len(pages) = 2
  /\ book.chapters[1].title = <<"P", "a", "r", "t", SP, "1", ".">>

\* C13: the text of two headings 'Chapter 1' and 'Chapter 2', each followed
\* by one body line, with a blank line between the chapters, opens as exactly
\* two chapters titled 'Chapter 1' and 'Chapter 2'; each has at least one
\* page, and its pages put together are its body.
C13_TwoShortChaptersFound ==
  (importPc = "opened" /\ file.kind = "txt" /\ file.data = TwoShortChapters
     /\ lastCall = NoCall)
    => /\ Len(book.chapters) = 2
       /\ book.chapters[1].title = ChapterWord \o <<SP, "1">>
       /\ book.chapters[2].title = ChapterWord \o <<SP, "2">>
       /\ Cardinality(MappedPages(book.chapters[1].id)) >= 1
       /\ Cardinality(MappedPages(book.chapters[2].id)) >= 1
       /\ Concat(MapGet(chapterPages, book.chapters[1].id)) = <<"x", SP, "y">>
       /\ Concat(MapGet(chapterPages, book.chapters[2].id)) = <<"z", SP, "w">>

\* the two short chapters open as one chapter, titled as the whole text, that
\* holds both headings
C13_OneChapterOfWholeText ==
  /\ importPc = "opened"
  /\ file.kind = "txt"
  /\ file.data = TwoShortChapters
  /\ lastCall = NoCall
  /\ Len(book.chapters) = 1
  /\ book.chapters[1].title = WholeText
  /\ book.chapters[1].content = TwoShortChapters

\* C11: every book a parser resolves with has content that is not blank and
\* at least one chapter, and a book whose only chapter is the one made of the
\* whole text has the full content in it.
C11_ParsedBookHasText ==
  importPc \in {"parsed", "opened"} =>
    /\ trim(parsed.content) # <<>>
    /\ Len(parsed.chapters) >= 1
    /\ (Len(parsed.chapters) = 1 /\ parsed.chapters[1].title = WholeText)
         => parsed.chapters[1].content = parsed.content

\* parsePdf resolved for a one-page scan without text: the content is two
\* line feeds and there is no chapter
C11_ScannedPdfHasNoChapter ==
  /\ importPc = "parsed"
  /\ file.kind = "pdf"
  /\ file.data.pages = <<ScannedPage>>
  /\ parsed.content = <<NL, NL>>
  /\ parsed.chapters = <<>>

\* some chapter of a pass holds text that is not blank
YieldsText(chapters) ==
  \E i \in 1..Len(chapters) : trim(chapters[i].content) # <<>>

\* C14: parseEpub rejects exactly when neither the pass over the spine nor
\* the pass over the archive yields text that is not blank; the book it
\* resolves with has at least one chapter and content that is not blank.
C14_EpubRejectsWithoutText ==
  (file.kind = "epub" /\ importPc # "picked") =>
    LET doc == file.data
        spineText == doc.readable /\ YieldsText(SpinePass(doc, 1, hasWindow))
        archiveText ==
          /\ doc.readable /\ doc.unzips
          /\ YieldsText(ArchivePass(doc.archive, ContentFiles(doc.archive), 1,
                                    hasWindow))
    IN  /\ (importPc = "rejected") <=> ~(spineText \/ archiveText)
        /\ importPc \in {"parsed", "opened"}
             => /\ Len(parsed.chapters) >= 1
                /\ trim(parsed.content) # <<>>

\* an EPUB that epub.js opens and whose only part is blank markup: rejected
C14_BlankEpubRejected ==
  /\ file.kind = "epub"
  /\ importPc = "rejected"
  /\ file.data.readable
  /\ Len(file.data.archive) = 1
  /\ file.data.archive[1].html = BlankMarkup

\* the place in the spine of the part a chapter of an EPUB was made from: the
\* part of its href, or for a chapter of the archive pass the part of the
\* content file its id counts
EpubPart(doc, chapter) ==
  LET contentFiles == ContentFiles(doc.archive)
      name == IF "href" \in DOMAIN chapter THEN chapter.href
              ELSE contentFiles[CHOOSE k \in 1..Len(contentFiles) :
                                  AltChapterId(k) = chapter.id]
  IN  CHOOSE k \in 1..Len(doc.spine) : doc.spine[k].href = name

\* C15: whichever parts of an EPUB or pages of a PDF fail to load, the book
\* the parser resolves with holds the text of the parts that did load, and
\* its chapters and its text are in the order of the parts in the document.
C15_FailuresKeepDocumentOrder ==
  (importPc \in {"parsed", "opened"} /\ file.kind \in {"pdf", "epub"}) =>
    IF file.kind = "pdf"
    THEN /\ parsed.content
              = PdfPageLoop(SelectSeq(file.data.pages, LAMBDA page : page.ok),
                            [pages |-> <<>>, fullContent |-> <<>>]).fullContent
         /\ \A i, j \in 1..Len(parsed.chapters) :
              i < j => parsed.chapters[i].startPage <= parsed.chapters[j].startPage
    ELSE /\ parsed.content = FullContentOf(parsed.chapters)
         /\ \A i, j \in 1..Len(parsed.chapters) :
              i < j => EpubPart(file.data, parsed.chapters[i])
                         < EpubPart(file.data, parsed.chapters[j])

\* a PDF whose second page failed to load: the first chapter of the book
\* starts on page 3 and the second on page 1
C15_LaterPageChapterFirst ==
  /\ importPc = "parsed"
  /\ file.kind = "pdf"
  /\ Len(file.data.pages) = 4
  /\ ~file.data.pages[2].ok
  /\ Len(parsed.chapters) = 4
  /\ parsed.chapters[1].startPage = 3
  /\ parsed.chapters[2].startPage = 1

\* C19: in every import the caps of addBook are applied before the text
\* reaches a parser or the pagination of the reading engine: once a parser has
\* resolved with the book, or the engine store holds its pages, the library
\* holds the book cut to the caps, and what was parsed and paginated is no
\* longer than the caps.
C19_CapBeforeAnyOperation ==
  (parsed # Null \/ storeBook # Null) =>
    /\ Len(books) > 0
    /\ parsed # Null =>
         /\ Len(parsed.content) <= maxContentLength
         /\ \A i \in 1..Len(parsed.chapters) :
              Len(parsed.chapters[i].content) <= maxChapterLength

\* setBook has paginated the content of the parsed book, and addBook, which
\* cuts the content, has not been called yet
C19_PaginatedBeforeTheCap ==
  /\ importPc = "shown"
  /\ storeBook = parsed
  /\ Len(storePages) > 0
  /\ books = <<>>

\* the lines of the text the segmenter was given
SegmentLines == splitChar(file.data, NL)

\* the heading kept last before the line at index, a 0-based line index
AcceptedBefore(index) ==
  CHOOSE a \in {parsed.accepted[k] : k \in 1..Len(parsed.accepted)} :
    /\ a < index
    /\ \A b \in {parsed.accepted[k] : k \in 1..Len(parsed.accepted)} :
         b < index => b <= a

\* C21: when the segmenter finds more than 3 heading candidates, a candidate
\* after the first is discarded exactly when the accepted candidate before it
\* lies fewer than 3 lines earlier, so that a candidate 3 or more lines after
\* it is kept; with 3 or fewer candidates none is discarded.
C21_DenseHeadingsDiscarded ==
  importPc = "segmented" =>
    IF Len(parsed.candidates) > MaxHeadingDensity
    THEN \A k \in 2..Len(parsed.candidates) :
           (\A j \in 1..Len(parsed.accepted) :
              parsed.accepted[j] # parsed.candidates[k])
             <=> parsed.candidates[k] - AcceptedBefore(parsed.candidates[k]) < 3
    ELSE parsed.accepted = parsed.candidates

\* four headings at lines 0, 3, 4, 5: the one at line 3 is three lines after
\* the accepted one before it and is discarded all the same
C21_ThreeLinesApartDiscarded ==
  /\ importPc = "segmented"
  /\ parsed.candidates = <<0, 3, 4, 5>>
  /\ parsed.accepted = <<0>>

\* C22: the chapters the segmenter returns carry back-to-back 1-based page
\* numbers: the first starts at 1, no chapter ends before it starts, each
\* starts on the page after the one before ends and spans the estimated pages
\* of its content; a leading chapter is there exactly when the first heading
\* kept is more than 10 lines in and the text before it is longer than 100
\* characters, and the chapters after it start after its pages.
C22_EstimatedPagesBackToBack ==
  importPc = "segmented" =>
    /\ Len(parsed.chapters) >= 1
    /\ parsed.chapters[1].startPage = 1
    /\ \A k \in 1..Len(parsed.chapters) :
         /\ parsed.chapters[k].startPage <= parsed.chapters[k].endPage
         /\ parsed.chapters[k].endPage - parsed.chapters[k].startPage + 1
              = calculatePages(parsed.chapters[k].content)
         /\ k > 1 => parsed.chapters[k].startPage
                        = parsed.chapters[k - 1].endPage + 1
    /\ parsed.chapters[1].id = "chapter-preface"
         <=> /\ Len(parsed.accepted) > 0
             /\ parsed.accepted[1] > 10
             /\ Len(trim(join(SubSeq(SegmentLines, 1, parsed.accepted[1]),
                              <<NL>>))) > 100

\* a leading chapter of two estimated pages, and the chapter of the heading
\* moved behind it
C22_ChapterShiftedByTwoPages ==
  /\ importPc = "segmented"
  /\ Len(parsed.chapters) = 2
  /\ parsed.chapters[1].id = "chapter-preface"
  /\ parsed.chapters[1].startPage = 1
  /\ parsed.chapters[1].endPage = 2
  /\ parsed.chapters[2].title = HeadingLine
  /\ parsed.chapters[2].startPage = 3
  /\ parsed.chapters[2].endPage = 3

\* the chapter starts parsePdf finds in the pages of a document
PdfHeadingsOf(doc) ==
  PdfHeadings(PdfPageLoop(doc.pages, [pages |-> <<>>, fullContent |-> <<>>]).pages,
              1, 0)

\* C23: parsePdf returns chapters split at the headings exactly when it found
\* at least two chapter starts, and otherwise chapters of
\* ceil(numPages / 20) consecutive pages each, at most 20 of them; the list
\* never mixes chapters of headings and chapters of page groups, and no two
\* chapters of it share an id.
C23_HeadingsOrPageGroups ==
  (importPc = "parsed" /\ file.kind = "pdf") =>
    /\ IF Len(PdfHeadingsOf(file.data)) >= 2
       THEN \A k \in 1..Len(parsed.chapters) :
              \E h \in 1..Len(PdfHeadingsOf(file.data)) :
                /\ parsed.chapters[k].title = PdfHeadingsOf(file.data)[h].title
                /\ parsed.chapters[k].startPage = PdfHeadingsOf(file.data)[h].pageNum
       ELSE /\ Len(parsed.chapters) <= PdfChapterCount
            /\ \A k \in 1..Len(parsed.chapters) :
                 /\ parsed.chapters[k].endPage - parsed.chapters[k].startPage + 1
                      <= Max(1, CeilDiv(Len(file.data.pages), PdfChapterCount))
                 /\ \E g \in 1..Len(file.data.pages) :
                      parsed.chapters[k].title
                        = PageGroupTitle(g, parsed.chapters[k].startPage,
                                         parsed.chapters[k].endPage)
    /\ \A i, j \in 1..Len(parsed.chapters) :
         parsed.chapters[i].id = parsed.chapters[j].id => i = j

\* two headings found and one page lost: a chapter of the first heading, then
\* the page groups, the first of them under the id of the heading's chapter
C23_HeadingThenPageGroups ==
  /\ importPc = "parsed"
  /\ file.kind = "pdf"
  /\ Len(PdfHeadingsOf(file.data)) = 2
  /\ Len(parsed.chapters) = 4
  /\ parsed.chapters[1].title = <<"A", "A">>
  /\ parsed.chapters[2].title = PageGroupTitle(1, 1, 1)
  /\ parsed.chapters[1].id = "chapter-1"
  /\ parsed.chapters[2].id = "chapter-1"

\* C28: every chapter parsePdf returns has a page range inside the document,
\* 1 <= startPage <= endPage <= numPages, and the ranges of successive
\* chapters ascend without overlap.
C28_PdfRangesWellFormed ==
  (importPc = "parsed" /\ file.kind = "pdf") =>
    /\ \A k \in 1..Len(parsed.chapters) :
         /\ 1 <= parsed.chapters[k].startPage
         /\ parsed.chapters[k].startPage <= parsed.chapters[k].endPage
         /\ parsed.chapters[k].endPage <= Len(file.data.pages)
    /\ \A k \in 1..(Len(parsed.chapters) - 1) :
         parsed.chapters[k].endPage < parsed.chapters[k + 1].startPage

\* two headings on the one page of a document: the chapter of the first ends
\* on page 0
C28_ChapterEndsBeforeItStarts ==
  /\ importPc = "parsed"
  /\ file.kind = "pdf"
  /\ file.data.pages = <<TwoHeadingsPage>>
  /\ Len(parsed.chapters) = 2
  /\ parsed.chapters[1].startPage = 1
  /\ parsed.chapters[1].endPage = 0
  /\ parsed.chapters[2].startPage = 1

\* C29: every chapter of a book parseText returns has its page range inside
\* the book's page count, 1 <= startPage <= endPage <= totalPages, and the
\* last chapter ends on the last page.
C29_TextRangesInsideTotal ==
  (importPc = "parsed" /\ file.kind = "txt") =>
    /\ \A k \in 1..Len(parsed.chapters) :
         /\ 1 <= parsed.chapters[k].startPage
         /\ parsed.chapters[k].startPage <= parsed.chapters[k].endPage
         /\ parsed.chapters[k].endPage <= parsed.totalPages
    /\ parsed.chapters[Len(parsed.chapters)].endPage = parsed.totalPages

\* two chapters of one estimated page each in a book of one estimated page
C29_SecondChapterPastTheEnd ==
  /\ importPc = "parsed"
  /\ file.kind = "txt"
  /\ file.data = TwoLongChapters
  /\ parsed.totalPages = 1
  /\ Len(parsed.chapters) = 2
  /\ parsed.chapters[2].startPage = 2
  /\ parsed.chapters[2].endPage = 2

\* C24: pagination returns for every typography and every text, also when
\* the page is lower than one line: no call of a pagination function is left
\* that never returns.
C24_PaginationReturns ==
  strategy \in {"heuristic", "measured", "engineMeasured", "engineFallback",
                "wordSplit"}
    => ~outcome.hung

\* the measured pagination of the engine on a page that holds no line: the
\* loop that spreads a paragraph over pages never ends
C24_NoLineFitsNeverReturns ==
  /\ strategy = "engineMeasured"
  /\ maxLinesOf(inputOptions) = 0
  /\ inputText = <<"a">>
  /\ outcome.hung

\* C25: searchText returns, with a finite list of hits, for every query, the
\* empty query and a query of white space included, on every document.
C25_SearchReturns ==
  lastCall.op = "searchText" => enginePc # "hung"

\* the empty query on a document with a page: the loop over the occurrences
\* finds the empty string at the index it searched from, and never advances
C25_EmptyQueryNeverReturns ==
  /\ lastCall.op = "searchText"
  /\ lastCall.arg = <<>>
  /\ Len(pages) >= 1
  /\ enginePc = "hung"

\* C26: in the engine store, whenever a book is loaded, currentChapter is
\* the index of the chapter whose range of pages, startPage to endPage,
\* contains currentPage.
C26_ChapterFollowsPage ==
  storeBook # Null =>
    /\ storeChapter >= 0
    /\ storeChapter < Len(storeBook.chapters)
    /\ storePage >= storeBook.chapters[storeChapter + 1].startPage
    /\ storePage <= storeBook.chapters[storeChapter + 1].endPage

\* a reader in the second chapter changes the font size: the page is put
\* back to 1, a page of the first chapter, and currentChapter stays behind
C26_ReflowLeavesChapterBehind ==
  /\ storeBook # Null
  /\ Len(storeBook.chapters) = 2
  /\ storeCall.updated
  /\ storeCall.oldPage = 2
  /\ storePage = 1
  /\ storeChapter = 1
  /\ FindChapterIndex(storeBook.chapters, storePage) = 0

\* the statuses an upload ends in
FinalStatuses == {"completed", "error"}

LibraryStateAfter ==
  [books |-> books', highlights |-> highlights', notes |-> notes',
   currentBook |-> libraryBook']

\* the ids of the books in a list
IdsIn(list) == {list[i].id : i \in 1..Len(list)}

\* what is left of a list when the entries of one book are taken out
WithoutBook(list, bookId) ==
  LET Other(x) == x.bookId # bookId IN SelectSeq(list, Other)

\* C30: After removeBook(id) the library holds no book with that id and no
\* highlight or note whose bookId is id, currentBook is null if it was that
\* book; all other books, the highlights and notes of other books and a
\* currentBook that is another book are unchanged; and removeBook of an id
\* that is not in the library changes nothing.
C30_RemoveBookFrame ==
  [][\A bookId \in Ids :
       RemoveBook(bookId) =>
         /\ bookId \notin IdsIn(books')
         /\ \A i \in 1..Len(highlights') : highlights'[i].bookId # bookId
         /\ \A i \in 1..Len(notes') : notes'[i].bookId # bookId
         /\ (libraryBook # Null /\ libraryBook.id = bookId) => libraryBook' = Null
         /\ LET Other(b) == b.id # bookId
            IN  books' = SelectSeq(books, Other)
         /\ highlights' = WithoutBook(highlights, bookId)
         /\ notes' = WithoutBook(notes, bookId)
         /\ ~(libraryBook # Null /\ libraryBook.id = bookId)
              => libraryBook' = libraryBook
         /\ bookId \notin IdsIn(books) => LibraryStateAfter = LibraryState]_vars

\* a highlight and a note of a book that is no longer in the library
C30_HighlightOutlivesItsBook ==
  /\ books = <<>>
  /\ Len(highlights) = 1
  /\ Len(notes) = 1
  /\ highlights[1].bookId = 1
  /\ notes[1].bookId = 1
  /\ issued = <<"book", "highlight", "note">>

====
